---------------------------- MODULE Spec2Model ----------------------------
(***************************************************************************)
(* Model of the ASR streaming + oral reading fluency pipeline of the       *)
(* ab-esl-ai backend:                                                      *)
(*   app/services/orf.py          reference aligner and fluency metrics    *)
(*   app/services/asr_client.py   ASRSession (segment buffer)              *)
(*   app/routers/v1/captions.py   CaptionSessionManager, stream_captions   *)
(*                                                                         *)
(* Text is modelled as a sequence of one-character strings, so that        *)
(* lower-casing, punctuation removal, stripping and splitting are computed *)
(* character by character as the Python code computes them.                *)
(***************************************************************************)
EXTENDS Integers, Sequences, FiniteSets, TLC

VARIABLES
    \* ---- orf.py: one scoring call ----
    entry,            \* which function was called
    simple,           \* score_simple's arguments words_read, seconds, errors
    reference_text,   \* score_audio's reference_text argument (None or text)
    segment,          \* the TranscriptSegment the transcription returned
    ref_words,        \* align_and_score's ref_words
    hyp_words,        \* align_and_score's hyp_words
    timed_hyp,        \* align_and_score's timed_hyp (start time of each word)
    dp,               \* the DP table of align_and_score
    i,                \* backtracking row index
    j,                \* backtracking column index
    errors,           \* the errors list being built
    correct_count,    \* the count of matched words
    opc,              \* position inside the scoring call
    result,           \* the value returned by the call
    \* ---- captions.py / asr_client.py: the streaming sessions ----
    pc,               \* position of each stream_captions coroutine
    active_sessions,  \* captions.active_sessions (its keys)
    asr_session,      \* CaptionSessionManager.asr_session (an ASRSession or NoASR)
    db_session_id,    \* CaptionSessionManager.db_session_id
    save_transcripts, \* CaptionSessionManager.save_transcripts
    simplify_strength,\* CaptionSessionManager.simplify_strength
    segment_count,    \* CaptionSessionManager.segment_count
    transcripts,      \* rows added to the transcript table
    vad_available,    \* whether get_vad() returns a classifier
    enable_asr,       \* settings.enable_asr
    rx,               \* number of binary frames each connection has received
    env,              \* the traffic the clients offer in this run
    ctl_budget,       \* text messages and timeouts each connection may still meet
    audio_budget,     \* binary frames each connection may still receive
    last_final,       \* the last "final" message sent on each connection
    ev,               \* what the last handled message did (calls made, messages sent)
    last_start,       \* history: save flag and token of each connection's last start
    \* ---- core/rate_limit.py: the sliding window rate limiter ----
    config,           \* SlidingWindowRateLimiter.config
    second_windows,   \* SlidingWindowRateLimiter._second_windows
    minute_windows,   \* SlidingWindowRateLimiter._minute_windows
    hour_windows,     \* SlidingWindowRateLimiter._hour_windows
    last_cleanup,     \* SlidingWindowRateLimiter._last_cleanup
    clock,            \* the last value time.time() returned, in ticks
    verdict,          \* what the last check_rate_limit call returned
    allowed_log,      \* history: the times at which each client was allowed
    req_budget        \* calls of check_rate_limit still to come

orfVars == <<entry, simple, reference_text, segment, ref_words, hyp_words, timed_hyp,
             dp, i, j, errors, correct_count, opc, result>>

mgrVars == <<asr_session, db_session_id, save_transcripts, simplify_strength,
             segment_count>>

envVars == <<vad_available, enable_asr, env>>

streamVars == <<pc, active_sessions, mgrVars, transcripts, envVars, rx,
                ctl_budget, audio_budget, last_final, ev, last_start>>

limiterVars == <<config, second_windows, minute_windows, hour_windows, last_cleanup,
                 clock, verdict, allowed_log, req_budget>>

vars == <<orfVars, streamVars, limiterVars>>

\* Python's None, in the three places a None can stand: where a text or a word
\* is expected, where a number is expected, and a call that has not returned
None == <<"None">>
NoneNum == -1
NoResult == [returned |-> FALSE]
NoSegment == [words |-> <<>>, end |-> 0]   \* a transcription with no words
NoneSeg == [none |-> TRUE]       \* None where a TranscriptSegment is expected
NoASR == [none |-> TRUE, asr |-> FALSE]  \* None where an ASRSession is expected

----------------------------------------------------------------------------
(* Bounds of the model                                                     *)

MaxAlignLen == 3      \* longest word list handed to align_and_score directly
MaxTextLen == 3       \* longest reference_text, in characters
MaxHypLen == 3        \* longest transcription, in characters
MaxWordsRead == 3
MaxSeconds == 2
MaxErrorCount == 4
MaxCtl == 3           \* text messages and timeouts of a one-connection run
MaxAudio == 2         \* binary frames of a one-connection run
MaxCtlEach == 2       \* text messages and timeouts per connection, two connections
MaxAudioEach == 1     \* binary frames per connection, two connections
MaxSpeechCtl == 1     \* text messages and timeouts of a long-utterance run
MaxSpeechAudio == 7   \* binary frames of a long-utterance run
MaxLongCtl == 1       \* text messages and timeouts of a long-frame run
MaxLongAudio == 3     \* binary frames of a long-frame run
MaxPauseCtl == 1      \* text messages and timeouts of a run with pauses
MaxPauseAudio == 17   \* binary frames of a run with pauses
MaxSaveCtl == 2       \* text messages and timeouts of a run with saving
MaxSaveAudio == 1     \* binary frames of a run with saving

----------------------------------------------------------------------------
(* Text helpers                                                            *)

RECURSIVE SeqsUpTo(_, _)
SeqsUpTo(S, n) ==
    IF n = 0 THEN {<<>>}
    ELSE LET shorter == SeqsUpTo(S, n - 1)
         IN  shorter \cup {Append(s, x) : s \in {t \in shorter : Len(t) = n - 1}, x \in S}

\* str.lower() on one character
Lower(c) == IF c = "A" THEN "a" ELSE c

LowerText(t) == [k \in 1..Len(t) |-> Lower(t[k])]

\* the character class of the re.sub in normalize_text
NormPunct == {".", ",", "!", "?", ";", ":", "\"", "'", "(", ")", "[", "]", "{", "}"}

\* the argument of str.strip in score_audio / score_audio_file
HypStripChars == {".", ",", "!", "?", "\"", "'"}

IsSpace(c) == c = " "

RemoveChars(t, S) == SelectSeq(t, LAMBDA c : c \notin S)

\* str.split(): the maximal runs of non-whitespace characters
RECURSIVE SplitFrom(_, _, _)
SplitFrom(t, k, cur) ==
    IF k > Len(t) THEN (IF cur = <<>> THEN <<>> ELSE <<cur>>)
    ELSE IF IsSpace(t[k])
         THEN (IF cur = <<>> THEN <<>> ELSE <<cur>>) \o SplitFrom(t, k + 1, <<>>)
         ELSE SplitFrom(t, k + 1, Append(cur, t[k]))

Split(t) == SplitFrom(t, 1, <<>>)

\* " ".join(words)
RECURSIVE JoinSp(_)
JoinSp(ws) ==
    IF ws = <<>> THEN <<>>
    ELSE IF Len(ws) = 1 THEN ws[1]
    ELSE ws[1] \o <<" ">> \o JoinSp(Tail(ws))

\* str.strip(chars): drop leading and trailing characters of the set
RECURSIVE LStrip(_, _)
LStrip(t, S) == IF t # <<>> /\ t[1] \in S THEN LStrip(Tail(t), S) ELSE t

RECURSIVE RStrip(_, _)
RStrip(t, S) ==
    IF t # <<>> /\ t[Len(t)] \in S THEN RStrip(SubSeq(t, 1, Len(t) - 1), S) ELSE t

Strip(t, S) == RStrip(LStrip(t, S), S)

\* normalize_text: lowercase, remove punctuation, collapse whitespace
normalize_text(text) == JoinSp(Split(RemoveChars(LowerText(text), NormPunct)))

\* the hypothesis side: w.word.lower().strip(".,!?\"'")
HypNormalize(w) == Strip(LowerText(w), HypStripChars)

Max(a, b) == IF a >= b THEN a ELSE b
Min3(a, b, c) == IF a <= b /\ a <= c THEN a ELSE IF b <= c THEN b ELSE c

\* round(): nearest, ties to even, of n/d for d > 0 (\div rounds down)
RoundDiv(n, d) ==
    LET q == n \div d
        r == n % d
    IN  IF 2 * r < d THEN q
        ELSE IF 2 * r > d THEN q + 1
        ELSE IF q % 2 = 0 THEN q ELSE q + 1

----------------------------------------------------------------------------
(* align_and_score (orf.py 152-224)                                        *)

\* the DP table, lines 168-183
RECURSIVE DpCell(_, _, _, _)
DpCell(rw, hw, a, b) ==
    IF a = 0 THEN b
    ELSE IF b = 0 THEN a
    ELSE IF rw[a] = hw[b] THEN DpCell(rw, hw, a - 1, b - 1)
    ELSE 1 + Min3(DpCell(rw, hw, a - 1, b),
                  DpCell(rw, hw, a, b - 1),
                  DpCell(rw, hw, a - 1, b - 1))

DpTable(rw, hw) ==
    [a \in 0..Len(rw) |-> [b \in 0..Len(hw) |-> DpCell(rw, hw, a, b)]]

ReadingError(type, ref, hyp, time) ==
    [type |-> type, ref |-> ref, hyp |-> hyp, time |-> time]

\* timed_hyp[j - 1].start if j - 1 < len(timed_hyp) else None
TimeVal(th, b) == IF b - 1 < Len(th) THEN th[b] ELSE NoneNum

Reverse(s) == [k \in 1..Len(s) |-> s[Len(s) + 1 - k]]

\* lines 161-186: enter align_and_score with the given arguments
AlignEnter(rw, hw, th) ==
    /\ ref_words' = rw
    /\ hyp_words' = hw
    /\ timed_hyp' = th
    /\ dp' = DpTable(rw, hw)
    /\ i' = Len(rw)
    /\ j' = Len(hw)
    /\ errors' = <<>>
    /\ correct_count' = 0
    /\ opc' = "backtrack"

CondMatch == i > 0 /\ j > 0 /\ ref_words[i] = hyp_words[j]
\* variant for C13: the substitution branch without its test on the table
CondSubAnyPair == i > 0 /\ j > 0
CondSub == i > 0 /\ j > 0 /\ dp[i][j] = dp[i - 1][j - 1] + 1
CondIns == j > 0 /\ dp[i][j] = dp[i][j - 1] + 1
CondDel == i > 0

\* variant for C22: the match branch without correct_count += 1
BtMatchNoCount ==
    /\ opc = "backtrack"
    /\ i > 0 \/ j > 0
    /\ CondMatch
    /\ correct_count' = correct_count
    /\ i' = i - 1
    /\ j' = j - 1
    /\ UNCHANGED <<entry, simple, reference_text, segment, ref_words, hyp_words,
                   timed_hyp, dp, errors, opc, result>>
    /\ UNCHANGED <<streamVars, limiterVars>>

\* lines 188-191
BtMatch ==
    /\ opc = "backtrack"
    /\ i > 0 \/ j > 0
    /\ CondMatch
    /\ correct_count' = correct_count + 1
    /\ i' = i - 1
    /\ j' = j - 1
    /\ UNCHANGED <<entry, simple, reference_text, segment, ref_words, hyp_words,
                   timed_hyp, dp, errors, opc, result>>
    /\ UNCHANGED <<streamVars, limiterVars>>

\* variant for C28: a substitution passed over without recording an error
BtSubUnrecorded ==
    /\ opc = "backtrack"
    /\ i > 0 \/ j > 0
    /\ ~CondMatch
    /\ CondSub
    /\ errors' = errors
    /\ i' = i - 1
    /\ j' = j - 1
    /\ UNCHANGED <<entry, simple, reference_text, segment, ref_words, hyp_words,
                   timed_hyp, dp, correct_count, opc, result>>
    /\ UNCHANGED <<streamVars, limiterVars>>

\* lines 192-202
BtSub ==
    /\ opc = "backtrack"
    /\ i > 0 \/ j > 0
    /\ ~CondMatch
    /\ CondSub
    /\ errors' = Append(errors, ReadingError("sub", ref_words[i], hyp_words[j],
                                             TimeVal(timed_hyp, j)))
    /\ i' = i - 1
    /\ j' = j - 1
    /\ UNCHANGED <<entry, simple, reference_text, segment, ref_words, hyp_words,
                   timed_hyp, dp, correct_count, opc, result>>
    /\ UNCHANGED <<streamVars, limiterVars>>

\* variant for C26: the insertion branch tried before the substitution branch
BtInsBeforeSub ==
    /\ opc = "backtrack"
    /\ i > 0 \/ j > 0
    /\ ~CondMatch
    /\ CondIns
    /\ errors' = Append(errors, ReadingError("ins", None, hyp_words[j],
                                             TimeVal(timed_hyp, j)))
    /\ j' = j - 1
    /\ UNCHANGED <<entry, simple, reference_text, segment, ref_words, hyp_words,
                   timed_hyp, dp, i, correct_count, opc, result>>
    /\ UNCHANGED <<streamVars, limiterVars>>

\* lines 203-212
BtIns ==
    /\ opc = "backtrack"
    /\ i > 0 \/ j > 0
    /\ ~CondMatch
    /\ ~CondSub
    /\ CondIns
    /\ errors' = Append(errors, ReadingError("ins", None, hyp_words[j],
                                             TimeVal(timed_hyp, j)))
    /\ j' = j - 1
    /\ UNCHANGED <<entry, simple, reference_text, segment, ref_words, hyp_words,
                   timed_hyp, dp, i, correct_count, opc, result>>
    /\ UNCHANGED <<streamVars, limiterVars>>

\* BtDel with the errors.append of the deletion branch left out
BtDelNoError ==
    /\ opc = "backtrack"
    /\ i > 0 \/ j > 0
    /\ ~CondMatch
    /\ ~CondSub
    /\ ~CondIns
    /\ CondDel
    /\ i' = i - 1
    /\ UNCHANGED <<entry, simple, reference_text, segment, ref_words, hyp_words,
                   timed_hyp, dp, j, errors, correct_count, opc, result>>
    /\ UNCHANGED <<streamVars, limiterVars>>

\* lines 213-221
BtDel ==
    /\ opc = "backtrack"
    /\ i > 0 \/ j > 0
    /\ ~CondMatch
    /\ ~CondSub
    /\ ~CondIns
    /\ CondDel
    /\ errors' = Append(errors, ReadingError("del", ref_words[i], None, NoneNum))
    /\ i' = i - 1
    /\ UNCHANGED <<entry, simple, reference_text, segment, ref_words, hyp_words,
                   timed_hyp, dp, j, correct_count, opc, result>>
    /\ UNCHANGED <<streamVars, limiterVars>>

\* variant for C14: the return without errors.reverse()
BtExitNoReverse ==
    /\ opc = "backtrack"
    /\ ~(i > 0 \/ j > 0)
    /\ errors' = errors
    /\ opc' = "aligned"
    /\ UNCHANGED <<entry, simple, reference_text, segment, ref_words, hyp_words,
                   timed_hyp, dp, i, j, correct_count, result>>
    /\ UNCHANGED <<streamVars, limiterVars>>

\* lines 223-224: the loop has ended; errors.reverse()
BtExit ==
    /\ opc = "backtrack"
    /\ ~(i > 0 \/ j > 0)
    /\ errors' = Reverse(errors)
    /\ opc' = "aligned"
    /\ UNCHANGED <<entry, simple, reference_text, segment, ref_words, hyp_words,
                   timed_hyp, dp, i, j, correct_count, result>>
    /\ UNCHANGED <<streamVars, limiterVars>>


\* align_and_score was called directly: return errors, correct_count
AlignReturn ==
    /\ opc = "aligned"
    /\ entry = "align_and_score"
    /\ result' = [errors |-> errors, correct_count |-> correct_count]
    /\ opc' = "done"
    /\ UNCHANGED <<entry, simple, reference_text, segment, ref_words, hyp_words,
                   timed_hyp, dp, i, j, errors, correct_count>>
    /\ UNCHANGED <<streamVars, limiterVars>>

\* the call align_and_score(ref_words, hyp_words, timed_hyp) is entered
AlignCall ==
    /\ opc = "call"
    /\ entry = "align_and_score"
    /\ AlignEnter(ref_words, hyp_words, timed_hyp)
    /\ UNCHANGED <<entry, simple, reference_text, segment, result>>
    /\ UNCHANGED <<streamVars, limiterVars>>

----------------------------------------------------------------------------
(* score_simple (orf.py 43-65); rates in tenths, accuracy in thousandths   *)

\* score_simple was not called
NoSimple == [words_read |-> 0, seconds |-> 1, errors |-> 0]

\* variant for C16: the rate rounded to whole words per second first
SimpleRateRoundedEarly(count, seconds) ==
    RoundDiv(count, Max(seconds, 1)) * 600

\* round((count / max(seconds, 1)) * 60.0, 1)
SimpleRate(count, seconds) == RoundDiv(count * 600, Max(seconds, 1))

\* variant for C17: the accuracy without max(0.0, ...)
SimpleAccuracyUnclamped(words_read, errs) ==
    RoundDiv((Max(words_read, 1) - errs) * 1000, Max(words_read, 1))

\* round(max(0.0, 1.0 - errors / max(words_read, 1)), 3)
SimpleAccuracy(words_read, errs) ==
    RoundDiv(Max(0, Max(words_read, 1) - errs) * 1000, Max(words_read, 1))

\* lines 55-65
ScoreSimple ==
    /\ opc = "call"
    /\ entry = "score_simple"
    /\ result' = [wpm |-> SimpleRate(simple.words_read, simple.seconds),
                  wcpm |-> SimpleRate(simple.words_read - simple.errors,
                                      simple.seconds),
                  accuracy |-> SimpleAccuracy(simple.words_read, simple.errors)]
    /\ opc' = "done"
    /\ UNCHANGED <<entry, simple, reference_text, segment, ref_words, hyp_words,
                   timed_hyp, dp, i, j, errors, correct_count>>
    /\ UNCHANGED <<streamVars, limiterVars>>

----------------------------------------------------------------------------
(* score_audio (orf.py 68-136) and score_audio_file (orf.py 227-264)       *)

ScoreEntries == {"score_audio", "score_audio_file"}

\* Python truthiness of reference_text in "if reference_text:"
Truthy(text) == text # None /\ text # <<>>

\* hyp_words = [w.word.lower().strip(".,!?\"'") for w in segment.words]
HypWordsOf(seg) == [k \in 1..Len(seg.words) |-> HypNormalize(seg.words[k].word)]

StartsOf(seg) == [k \in 1..Len(seg.words) |-> seg.words[k].start]

\* durations are in milliseconds; max(duration, 0.1) is Max(d, 100)
DurationFloor == 100

\* variant for C15: the rate computed against a floor of one second
RatePerMinuteFloorSecond(count, duration) ==
    RoundDiv(count * 60 * 1000 * 10, Max(duration, 1000))

\* round((count / max(duration, 0.1)) * 60.0, 1), in tenths of a word per minute
RatePerMinute(count, duration) ==
    RoundDiv(count * 60 * 1000 * 10, Max(duration, DurationFloor))

\* round(correct_count / max(len(ref_words), 1), 3), in thousandths
AccuracyOf(correct, nref) == RoundDiv(correct * 1000, Max(nref, 1))

ORFResult(wpm, wcpm, accuracy, errs, duration) ==
    [wpm |-> wpm, wcpm |-> wcpm, accuracy |-> accuracy, errors |-> errs,
     duration |-> duration]

\* lines 89-104 / 233-244: a reference is supplied; normalise and align
ScoreWithRef ==
    /\ opc = "call"
    /\ entry \in ScoreEntries
    /\ Truthy(reference_text)
    /\ AlignEnter(Split(normalize_text(reference_text)), HypWordsOf(segment),
                  StartsOf(segment))
    /\ UNCHANGED <<entry, simple, reference_text, segment, result>>
    /\ UNCHANGED <<streamVars, limiterVars>>

\* lines 106-124 / 245-255
ScoreReturn ==
    /\ opc = "aligned"
    /\ entry \in ScoreEntries
    /\ result' = ORFResult(RatePerMinute(Len(hyp_words), segment.end),
                           RatePerMinute(correct_count, segment.end),
                           AccuracyOf(correct_count, Len(ref_words)),
                           errors, segment.end)
    /\ opc' = "done"
    /\ UNCHANGED <<entry, simple, reference_text, segment, ref_words, hyp_words,
                   timed_hyp, dp, i, j, errors, correct_count>>
    /\ UNCHANGED <<streamVars, limiterVars>>

\* variant for C21: without a reference wcpm and accuracy are reported as 0
ScoreNoRefZeros ==
    /\ opc = "call"
    /\ entry \in ScoreEntries
    /\ ~Truthy(reference_text)
    /\ hyp_words' = HypWordsOf(segment)
    /\ result' = ORFResult(RatePerMinute(Len(HypWordsOf(segment)), segment.end),
                           0, 0, <<>>, segment.end)
    /\ opc' = "done"
    /\ UNCHANGED <<entry, simple, reference_text, segment, ref_words, timed_hyp, dp,
                   i, j, errors, correct_count>>
    /\ UNCHANGED <<streamVars, limiterVars>>

\* lines 125-136 / 256-264: no reference, only WPM
ScoreNoRef ==
    /\ opc = "call"
    /\ entry \in ScoreEntries
    /\ ~Truthy(reference_text)
    /\ hyp_words' = HypWordsOf(segment)
    /\ result' = ORFResult(RatePerMinute(Len(HypWordsOf(segment)), segment.end),
                           NoneNum, NoneNum, <<>>, segment.end)
    /\ opc' = "done"
    /\ UNCHANGED <<entry, simple, reference_text, segment, ref_words, timed_hyp, dp,
                   i, j, errors, correct_count>>
    /\ UNCHANGED <<streamVars, limiterVars>>

----------------------------------------------------------------------------
(* ASRSession (asr_client.py 73-216)                                       *)
(*                                                                         *)
(* The audio buffer is kept by what decides the code's behaviour: its      *)
(* length in bytes, the speech the recognition engine hears in it (how     *)
(* many blank segments, how many spoken words) and the receive numbers of  *)
(* its first and last binary frame.  The engine is a function of the       *)
(* buffer; whether a call to it raises is chosen at each call.             *)

max_segment_duration == 10    \* seconds; a field no method reads
silence_threshold == 15
MinSegmentTenths == 5     \* min_segment_duration = 0.5 s, in tenths
PartialTenths == 5        \* buffer_duration > 0.5
MinVoicedFrames == 5      \* voiced_frames > 5
PartialMinTenths == 3     \* len(audio_array) < sample_rate * 0.3
FrameHundredths == 2      \* 20 ms frames: sample_rate * 0.02 * 2

EmptyBuffer == [len |-> 0, blanks |-> 0, words |-> 0, first |-> 0, last |-> 0]

\* ASRSession(sample_rate=..., language=...): the dataclass defaults
NewASRSession(sample_rate) ==
    [sample_rate |-> sample_rate,
     buffer |-> EmptyBuffer,
     segments |-> <<>>,
     segment_id |-> 0,
     last_partial |-> <<>>,
     voiced_frames |-> 0,
     silent_frames |-> 0,
     is_speaking |-> FALSE]

\* self.buffer += audio_bytes, n being the receive number of the frame
BufferAppend(b, chunk, n) ==
    [len |-> b.len + chunk.len,
     blanks |-> b.blanks + (IF chunk.heard = "blank" THEN 1 ELSE 0),
     words |-> b.words + (IF chunk.heard = "word" THEN 1 ELSE 0),
     first |-> IF b.len = 0 THEN n ELSE b.first,
     last |-> n]

\* buffer_duration = len(buffer) / (sample_rate * 2), compared with tenths/10
DurationOver(len, sample_rate, tenths) == len * 10 > tenths * sample_rate * 2

\* frame_size = int(self.sample_rate * 0.02 * 2)
FrameSize(sample_rate) == (sample_rate * FrameHundredths * 2) \div 100

\* _bytes_to_array: struct.unpack("<{n//2}h", bytes) raises on an odd length
BytesToArrayRaises(len) == len % 2 = 1

\* model.transcribe(audio): the segment texts the engine returns for a buffer
EngineSegments(b) ==
    [k \in 1..(b.blanks + b.words) |->
        IF k <= b.blanks THEN <<" ">> ELSE <<" ", "h", "i">>]

\* " ".join(seg.text.strip() for seg in segments)
JoinedText(segs) == JoinSp([k \in 1..Len(segs) |-> Strip(segs[k], {" "})])

\* whether _get_partial_transcript reaches model.transcribe
PartialCallsEngine(a) ==
    /\ ~BytesToArrayRaises(a.buffer.len)
    /\ ~((a.buffer.len \div 2) * 10 < a.sample_rate * PartialMinTenths)

\* _get_partial_transcript (lines 126-144); engine_ok: the engine does not raise
PartialTranscript(a, engine_ok) ==
    IF BytesToArrayRaises(a.buffer.len) THEN <<>>
    ELSE IF (a.buffer.len \div 2) * 10 < a.sample_rate * PartialMinTenths THEN <<>>
    ELSE IF ~engine_ok THEN <<>>
    ELSE JoinedText(EngineSegments(a.buffer))

PartialLog(a, engine_ok, via) ==
    IF PartialCallsEngine(a)
    THEN <<[kind |-> "partial", via |-> via, ok |-> engine_ok]>>
    ELSE <<>>

\* variant for C27: is_speaking cleared when silent_frames reaches the
\* threshold, one frame early
FeedVadFlipsEarly(a, vad) ==
    IF vad_available /\ a.buffer.len >= FrameSize(a.sample_rate)
    THEN IF vad = "speech"
         THEN [a EXCEPT !.voiced_frames = @ + 1, !.silent_frames = 0,
                        !.is_speaking = TRUE]
         ELSE IF vad = "silence"
         THEN [a EXCEPT !.silent_frames = @ + 1,
                        !.is_speaking = IF a.silent_frames + 1 >= silence_threshold
                                        THEN FALSE ELSE @]
         ELSE a
    ELSE a

\* lines 101-114 of feed: the classifier on the trailing frame
FeedVad(a, vad) ==
    IF vad_available /\ a.buffer.len >= FrameSize(a.sample_rate)
    THEN IF vad = "speech"
         THEN [a EXCEPT !.voiced_frames = @ + 1, !.silent_frames = 0,
                        !.is_speaking = TRUE]
         ELSE IF vad = "silence"
         THEN [a EXCEPT !.silent_frames = @ + 1,
                        !.is_speaking = IF a.silent_frames + 1 > silence_threshold
                                        THEN FALSE ELSE @]
         ELSE a
    ELSE a

\* line 117: buffer_duration = len(self.buffer) / (self.sample_rate * 2)
\* raises ZeroDivisionError for the sample_rate 0 that handle_start accepts
FeedRaises(a) == a.sample_rate = 0

\* whether feed asks for a partial transcript (line 118)
WantsPartial(a) ==
    /\ DurationOver(a.buffer.len, a.sample_rate, PartialTenths)
    /\ a.voiced_frames > MinVoicedFrames

\* lines 116-124 of feed, after the buffer and the counters are updated
FeedPartial(a, engine_ok) ==
    IF ~WantsPartial(a) THEN [asr |-> a, ret |-> None, calls |-> <<>>]
    ELSE LET partial == PartialTranscript(a, engine_ok)
             fresh == partial # <<>> /\ partial # a.last_partial
         IN  [asr |-> IF fresh THEN [a EXCEPT !.last_partial = partial] ELSE a,
              ret |-> IF fresh THEN partial ELSE None,
              calls |-> PartialLog(a, engine_ok, "feed")]

\* ASRSession.feed (lines 90-124): chunk.vad is what the classifier answers
\* on the trailing frame, n the receive number of the frame
Feed(a, chunk, n, engine_ok) ==
    FeedPartial(FeedVad([a EXCEPT !.buffer = BufferAppend(@, chunk, n)], chunk.vad),
                engine_ok)

\* variant for C8: the guard counts samples where the code counts bytes
TooShortBySamples(a) == a.buffer.len * 10 < a.sample_rate * MinSegmentTenths

\* line 153: the buffer is shorter than min_segment_duration
TooShort(a) == a.buffer.len * 10 < a.sample_rate * 2 * MinSegmentTenths

TranscriptSegment(text, words) == [text |-> text, words |-> words]

\* the Word list of lines 170-174: one word for each spoken word heard
EngineWords(b) == [k \in 1..b.words |-> <<"h", "i">>]

\* the outcome of the try block of flush_segment (lines 156-211):
\* the segment built, or None
FlushOutcome(a, engine_ok) ==
    IF BytesToArrayRaises(a.buffer.len) THEN NoneSeg
    ELSE IF ~engine_ok THEN NoneSeg
    ELSE LET text == JoinedText(EngineSegments(a.buffer))
         IN  IF Strip(text, {" "}) = <<>> THEN NoneSeg
             ELSE TranscriptSegment(text, EngineWords(a.buffer))

\* variant for C7: flush_segment without the reset of the frame counters
FlushSegmentKeepsFrames(a, engine_ok) ==
    IF TooShort(a) THEN [asr |-> a, segment |-> NoneSeg, calls |-> <<>>]
    ELSE LET seg == FlushOutcome(a, engine_ok)
             log == IF BytesToArrayRaises(a.buffer.len) THEN <<>>
                    ELSE <<[kind |-> "final", via |-> "flush_segment",
                            ok |-> engine_ok]>>
         IN  IF seg = NoneSeg
             THEN [asr |-> a, segment |-> NoneSeg, calls |-> log]
             ELSE [asr |-> [a EXCEPT !.segment_id = @ + 1,
                                     !.segments = Append(@, seg),
                                     !.buffer = EmptyBuffer,
                                     !.last_partial = <<>>],
                   segment |-> seg,
                   calls |-> log]

\* variant for C29: a flush that builds no segment drops the buffered audio
FlushSegmentDropsAudio(a, engine_ok) ==
    IF TooShort(a) THEN [asr |-> a, segment |-> NoneSeg, calls |-> <<>>]
    ELSE LET seg == FlushOutcome(a, engine_ok)
             log == IF BytesToArrayRaises(a.buffer.len) THEN <<>>
                    ELSE <<[kind |-> "final", via |-> "flush_segment",
                            ok |-> engine_ok]>>
         IN  IF seg = NoneSeg
             THEN [asr |-> [a EXCEPT !.buffer = EmptyBuffer],
                   segment |-> NoneSeg, calls |-> log]
             ELSE [asr |-> [a EXCEPT !.segment_id = @ + 1,
                                     !.segments = Append(@, seg),
                                     !.buffer = EmptyBuffer,
                                     !.last_partial = <<>>,
                                     !.voiced_frames = 0,
                                     !.silent_frames = 0],
                   segment |-> seg,
                   calls |-> log]

\* ASRSession.flush_segment (lines 146-211)
FlushSegment(a, engine_ok) ==
    IF TooShort(a) THEN [asr |-> a, segment |-> NoneSeg, calls |-> <<>>]
    ELSE LET seg == FlushOutcome(a, engine_ok)
             log == IF BytesToArrayRaises(a.buffer.len) THEN <<>>
                    ELSE <<[kind |-> "final", via |-> "flush_segment",
                            ok |-> engine_ok]>>
         IN  IF seg = NoneSeg
             THEN [asr |-> a, segment |-> NoneSeg, calls |-> log]
             ELSE [asr |-> [a EXCEPT !.segment_id = @ + 1,
                                     !.segments = Append(@, seg),
                                     !.buffer = EmptyBuffer,
                                     !.last_partial = <<>>,
                                     !.voiced_frames = 0,
                                     !.silent_frames = 0],
                   segment |-> seg,
                   calls |-> log]

----------------------------------------------------------------------------
(* CaptionSessionManager and stream_captions (captions.py 28-268)          *)

Sessions == {1, 2}
SampleRates == {8000, 16000}
ChunkLens == {1, 8000, 16000}
Heard == {"none", "blank", "word"}
VadOutcomes == {"speech", "silence", "error"}
Tokens == {"absent", "invalid", "valid"}
TokenSessionId == 7       \* the session_id a valid token carries

\* a choice the environment makes only when the code reaches it
Choice(reached) == IF reached THEN BOOLEAN ELSE {TRUE}

Event(s, msg, sent, calls, flushes) ==
    [sid |-> s, msg |-> msg, sent |-> sent, calls |-> calls, flushes |-> flushes]

NoEvent == Event(0, "none", <<>>, <<>>, <<>>)

NoFinal == [segment_id |-> 0, first |-> 0, last |-> 0]

\* if self.save_transcripts and self.db_session_id
SaveEnabled(s) ==
    save_transcripts[s] /\ db_session_id[s] # NoneNum /\ db_session_id[s] # 0

\* ASRSession.flush_segment would build a segment from this buffer
BuildsSegment(a, engine_ok) == ~TooShort(a) /\ FlushOutcome(a, engine_ok) # NoneSeg

\* what one call of ASRSession.flush_segment did: the session before and
\* after, the segment returned, the engine calls made
FlushRecord(a, r) ==
    [before |-> a, after |-> r.asr, segment |-> r.segment, calls |-> r.calls]

\* variant for C2: the final message carries the ASR session's own
\* segment_id, which a second start resets, not the manager's segment_count
ManagerFlushSessionIds(s, a, r, post_ok, up, db_ok) ==
    LET count == segment_count[s] + 1
        final == [type |-> "final", text |-> r.segment.text,
                  segment_id |-> r.asr.segment_id, first |-> a.buffer.first,
                  last |-> a.buffer.last]
        emitted == (simplify_strength[s] > 0 => post_ok) /\ up
    IN  IF r.segment = NoneSeg
        THEN [asr |-> r.asr, segment_count |-> segment_count[s], sent |-> <<>>,
              calls |-> r.calls, flushes |-> <<FlushRecord(a, r)>>, rows |-> {}]
        ELSE [asr |-> r.asr, segment_count |-> count,
              sent |-> IF emitted THEN <<final>> ELSE <<>>,
              calls |-> r.calls, flushes |-> <<FlushRecord(a, r)>>,
              rows |-> IF emitted /\ SaveEnabled(s) /\ db_ok
                       THEN {[session_id |-> db_session_id[s], segment_id |-> count]}
                       ELSE {}]

\* CaptionSessionManager.flush_segment (lines 114-163) on session a:
\*   engine_ok  the engine does not raise
\*   post_ok    simplify_text does not raise
\*   up         ws.send_json does not raise
\*   db_ok      the transcript row is written
ManagerFlushWith(s, a, r, post_ok, up, db_ok) ==
    LET count == segment_count[s] + 1
        final == [type |-> "final", text |-> r.segment.text,
                  segment_id |-> count, first |-> a.buffer.first,
                  last |-> a.buffer.last]
        emitted == (simplify_strength[s] > 0 => post_ok) /\ up
    IN  IF r.segment = NoneSeg
        THEN [asr |-> r.asr, segment_count |-> segment_count[s], sent |-> <<>>,
              calls |-> r.calls, flushes |-> <<FlushRecord(a, r)>>, rows |-> {}]
        ELSE [asr |-> r.asr, segment_count |-> count,
              sent |-> IF emitted THEN <<final>> ELSE <<>>,
              calls |-> r.calls, flushes |-> <<FlushRecord(a, r)>>,
              rows |-> IF emitted /\ SaveEnabled(s) /\ db_ok
                       THEN {[session_id |-> db_session_id[s], segment_id |-> count]}
                       ELSE {}]

ManagerFlush(s, a, engine_ok, post_ok, up, db_ok) ==
    ManagerFlushWith(s, a, FlushSegment(a, engine_ok), post_ok, up, db_ok)

\* the choices ManagerFlush meets on session a
FlushChoices(s, a) ==
    {c \in [engine_ok : Choice(~TooShort(a) /\ ~BytesToArrayRaises(a.buffer.len)),
            post_ok : Choice(simplify_strength[s] > 0),
            up : BOOLEAN,
            db_ok : Choice(SaveEnabled(s))] :
        /\ (~BuildsSegment(a, c.engine_ok) => c.post_ok /\ c.up /\ c.db_ok)
        /\ (~(c.post_ok /\ c.up) => c.db_ok)
        /\ (~c.post_ok => c.up)}

LastFinalAfter(s, sent) ==
    IF \E k \in 1..Len(sent) : sent[k].type = "final"
    THEN LET f == sent[Len(sent)]
         IN  [last_final EXCEPT ![s] =
                 [segment_id |-> f.segment_id, first |-> f.first, last |-> f.last]]
    ELSE last_final

\* the loop is waiting in ws.receive() and a text message or timeout arrives
ReceivesCtl(s) ==
    /\ pc[s] = "loop"
    /\ ctl_budget[s] > 0
    /\ ctl_budget' = [ctl_budget EXCEPT ![s] = @ - 1]
    /\ UNCHANGED <<audio_budget, envVars>>

\* the loop is waiting in ws.receive() and a binary frame arrives
ReceivesAudio(s) ==
    /\ pc[s] = "loop"
    /\ audio_budget[s] > 0
    /\ audio_budget' = [audio_budget EXCEPT ![s] = @ - 1]
    /\ UNCHANGED <<ctl_budget, envVars>>

\* variant for C10: a finally block that leaves the entry in place
FinallyKeepsEntry(s) ==
    /\ pc' = [pc EXCEPT ![s] = "ended"]
    /\ UNCHANGED active_sessions

\* the finally block (lines 265-268)
Finally(s) ==
    /\ pc' = [pc EXCEPT ![s] = "ended"]
    /\ active_sessions' = active_sessions \ {s}

\* an exception escapes the message loop: WebSocketDisconnect goes straight
\* to the finally block, any other exception first tries to send an error
Escapes(s, disconnect) ==
    IF disconnect THEN Finally(s)
    ELSE /\ pc' = [pc EXCEPT ![s] = "failing"]
         /\ UNCHANGED active_sessions

StaysInLoop == UNCHANGED <<pc, active_sessions>>

\* lines 212-215: accept, create the manager, register the session
Connect(s) ==
    /\ pc[s] = "closed"
    /\ ctl_budget[s] + audio_budget[s] > 0
    /\ pc' = [pc EXCEPT ![s] = "accepted"]
    /\ active_sessions' = active_sessions \cup {s}
    /\ ev' = Event(s, "connect", <<>>, <<>>, <<>>)
    /\ UNCHANGED <<mgrVars, transcripts, envVars, rx, ctl_budget, audio_budget,
                   last_final>>
    /\ UNCHANGED <<orfVars, limiterVars, last_start>>

\* line 218: send {"type": "ready"} and enter the message loop
SendReady(s) ==
    /\ pc[s] = "accepted"
    /\ \E up \in BOOLEAN, disconnect \in BOOLEAN :
          /\ (up => disconnect)
          /\ IF up THEN /\ pc' = [pc EXCEPT ![s] = "loop"]
                        /\ UNCHANGED active_sessions
                   ELSE Escapes(s, disconnect)
          /\ ev' = Event(s, "ready", IF up THEN <<[type |-> "ready"]>> ELSE <<>>,
                         <<>>, <<>>)
    /\ UNCHANGED <<mgrVars, transcripts, envVars, rx, ctl_budget, audio_budget,
                   last_final>>
    /\ UNCHANGED <<orfVars, limiterVars, last_start>>

\* lines 259-268: an escaped exception is reported (best effort), then finally
SendFailure(s) ==
    /\ pc[s] = "failing"
    /\ Finally(s)
    /\ \E up \in BOOLEAN :
          ev' = Event(s, "failure", IF up THEN <<[type |-> "error"]>> ELSE <<>>,
                      <<>>, <<>>)
    /\ UNCHANGED <<mgrVars, transcripts, envVars, rx, ctl_budget, audio_budget,
                   last_final>>
    /\ UNCHANGED <<orfVars, limiterVars, last_start>>

\* variant for C20: an idle session is closed after the ping
RecvTimeoutCloses(s) ==
    /\ ReceivesCtl(s)
    /\ \E up \in BOOLEAN :
          /\ Finally(s)
          /\ ev' = Event(s, "timeout", IF up THEN <<[type |-> "ping"]>> ELSE <<>>,
                         <<>>, <<>>)
    /\ UNCHANGED <<mgrVars, transcripts, rx, last_final>>
    /\ UNCHANGED <<orfVars, limiterVars, last_start>>

\* lines 222-229: no message within 60 s, send a keepalive ping
RecvTimeout(s) ==
    /\ ReceivesCtl(s)
    /\ \E up \in BOOLEAN :
          /\ IF up THEN StaysInLoop ELSE Finally(s)
          /\ ev' = Event(s, "timeout", IF up THEN <<[type |-> "ping"]>> ELSE <<>>,
                         <<>>, <<>>)
    /\ UNCHANGED <<mgrVars, transcripts, rx, last_final>>
    /\ UNCHANGED <<orfVars, limiterVars, last_start>>

\* lines 231-232: the transport reports the disconnect
RecvDisconnect(s) ==
    /\ ReceivesCtl(s)
    /\ Finally(s)
    /\ ev' = Event(s, "disconnect", <<>>, <<>>, <<>>)
    /\ UNCHANGED <<mgrVars, transcripts, rx, last_final>>
    /\ UNCHANGED <<orfVars, limiterVars, last_start>>

\* the error reply of lines 247-251; a failed send escapes the loop
ErrorReply(s, msg) ==
    \E up \in BOOLEAN, disconnect \in BOOLEAN :
        /\ (up => disconnect)
        /\ IF up THEN StaysInLoop ELSE Escapes(s, disconnect)
        /\ ev' = Event(s, msg, IF up THEN <<[type |-> "error"]>> ELSE <<>>, <<>>, <<>>)

\* variant for C19: a parse error drops the ASR session
RecvBadJsonResets(s) ==
    /\ ReceivesCtl(s)
    /\ ErrorReply(s, "bad_json")
    /\ asr_session' = [asr_session EXCEPT ![s] = NoASR]
    /\ UNCHANGED <<db_session_id, save_transcripts, simplify_strength,
                   segment_count, transcripts, rx, last_final>>
    /\ UNCHANGED <<orfVars, limiterVars, last_start>>

\* lines 237, 247-248: a text message that json.loads rejects
RecvBadJson(s) ==
    /\ ReceivesCtl(s)
    /\ ErrorReply(s, "bad_json")
    /\ UNCHANGED <<mgrVars, transcripts, rx, last_final>>
    /\ UNCHANGED <<orfVars, limiterVars, last_start>>

\* lines 238, 249-251: JSON that is no object; data.get raises AttributeError
RecvNonObject(s) ==
    /\ ReceivesCtl(s)
    /\ ErrorReply(s, "non_object")
    /\ UNCHANGED <<mgrVars, transcripts, rx, last_final>>
    /\ UNCHANGED <<orfVars, limiterVars, last_start>>

\* lines 238-246: a JSON object whose type is none of start, stop, pong;
\* no branch of the if/elif chain is taken
RecvUnknownType(s) ==
    /\ ReceivesCtl(s)
    /\ StaysInLoop
    /\ ev' = Event(s, "unknown", <<>>, <<>>, <<>>)
    /\ UNCHANGED <<mgrVars, transcripts, rx, last_final>>
    /\ UNCHANGED <<orfVars, limiterVars, last_start>>

\* lines 245-246: pong only refreshes last_activity
RecvPong(s) ==
    /\ ReceivesCtl(s)
    /\ StaysInLoop
    /\ ev' = Event(s, "pong", <<>>, <<>>, <<>>)
    /\ UNCHANGED <<mgrVars, transcripts, rx, last_final>>
    /\ UNCHANGED <<orfVars, limiterVars, last_start>>

\* what a start message asked for: data.get("save"), data.get("token")
StartSeen(save, token) == [save |-> save, token |-> token]

\* before any start: save_transcripts False, no token seen
NoStart == StartSeen(FALSE, "absent")

\* verify_token: the payload's session_id, or None
VerifiedSessionId(token) == IF token = "valid" THEN TokenSessionId ELSE NoneNum

\* variant for C12: one ASR session object shared by all connections
RecvStartShared(s) ==
    /\ ReceivesCtl(s)
    /\ \E sample_rate \in env.rates, save \in env.saves, simplify \in env.simplify,
          token \in env.tokens, up \in BOOLEAN, disconnect \in BOOLEAN :
          /\ (up => disconnect)
          /\ save_transcripts' = [save_transcripts EXCEPT ![s] = save]
          /\ last_start' = [last_start EXCEPT ![s] = StartSeen(save, token)]
          /\ simplify_strength' = [simplify_strength EXCEPT ![s] = simplify]
          /\ db_session_id' =
                IF token # "absent" /\ VerifiedSessionId(token) # NoneNum
                THEN [db_session_id EXCEPT ![s] = VerifiedSessionId(token)]
                ELSE db_session_id
          /\ asr_session' =
                IF enable_asr
                THEN [t \in Sessions |-> NewASRSession(sample_rate)]
                ELSE asr_session
          /\ IF up THEN StaysInLoop ELSE Escapes(s, disconnect)
          /\ ev' = Event(s, "start",
                         IF up THEN <<[type |-> "started", asr_enabled |-> enable_asr]>>
                         ELSE <<>>,
                         <<>>, <<>>)
    /\ UNCHANGED <<segment_count, transcripts, rx, last_final>>
    /\ UNCHANGED <<orfVars, limiterVars>>

\* lines 240-241 and handle_start (lines 47-85)
RecvStart(s) ==
    /\ ReceivesCtl(s)
    /\ \E sample_rate \in env.rates, save \in env.saves, simplify \in env.simplify,
          token \in env.tokens, up \in BOOLEAN, disconnect \in BOOLEAN :
          /\ (up => disconnect)
          /\ save_transcripts' = [save_transcripts EXCEPT ![s] = save]
          /\ last_start' = [last_start EXCEPT ![s] = StartSeen(save, token)]
          /\ simplify_strength' = [simplify_strength EXCEPT ![s] = simplify]
          /\ db_session_id' =
                IF token # "absent" /\ VerifiedSessionId(token) # NoneNum
                THEN [db_session_id EXCEPT ![s] = VerifiedSessionId(token)]
                ELSE db_session_id
          /\ asr_session' =
                IF enable_asr
                THEN [asr_session EXCEPT ![s] = NewASRSession(sample_rate)]
                ELSE asr_session
          /\ IF up THEN StaysInLoop ELSE Escapes(s, disconnect)
          /\ ev' = Event(s, "start",
                         IF up THEN <<[type |-> "started", asr_enabled |-> enable_asr]>>
                         ELSE <<>>,
                         <<>>, <<>>)
    /\ UNCHANGED <<segment_count, transcripts, rx, last_final>>
    /\ UNCHANGED <<orfVars, limiterVars>>

\* lines 242-244 and handle_stop (lines 185-196): flush, then leave the loop
RecvStop(s) ==
    /\ ReceivesCtl(s)
    /\ Finally(s)
    /\ IF asr_session[s] = NoASR
       THEN /\ ev' = Event(s, "stop", <<>>, <<>>, <<>>)
            /\ UNCHANGED <<mgrVars, transcripts, last_final>>
       ELSE \E c \in FlushChoices(s, asr_session[s]) :
            \E f \in {ManagerFlush(s, asr_session[s], c.engine_ok, c.post_ok,
                                   c.up, c.db_ok)} :
                  /\ asr_session' = [asr_session EXCEPT ![s] = f.asr]
                  /\ segment_count' = [segment_count EXCEPT ![s] = f.segment_count]
                  /\ transcripts' = transcripts \cup f.rows
                  /\ last_final' = LastFinalAfter(s, f.sent)
                  /\ ev' = Event(s, "stop", f.sent, f.calls, f.flushes)
                  /\ UNCHANGED <<db_session_id, save_transcripts, simplify_strength>>
    /\ UNCHANGED rx
    /\ UNCHANGED <<orfVars, limiterVars, last_start>>

\* the outcomes of vad.is_speech that feed can meet on this frame
VadChoices(a, len) ==
    IF vad_available /\ a.buffer.len + len >= FrameSize(a.sample_rate)
    THEN VadOutcomes ELSE {"unused"}

\* variant for C9: a failed partial call is reported to the client
AudioPartialReporting(a, engine_ok, up) ==
    LET over == DurationOver(a.buffer.len, a.sample_rate, PartialTenths)
        want == over /\ a.voiced_frames > MinVoicedFrames
    IN  IF ~want THEN [asr |-> a, sent |-> <<>>, calls |-> <<>>]
        ELSE LET partial == PartialTranscript(a, engine_ok)
                 fresh == partial # <<>> /\ partial # a.last_partial
                 failed == PartialCallsEngine(a) /\ ~engine_ok
             IN  [asr |-> IF fresh THEN [a EXCEPT !.last_partial = partial] ELSE a,
                  sent |-> IF failed THEN <<[type |-> "error"]>>
                           ELSE IF fresh /\ up
                           THEN <<[type |-> "partial", text |-> partial]>> ELSE <<>>,
                  calls |-> PartialLog(a, engine_ok, "handle_audio")]

\* lines 96-108 of handle_audio: the manager's own partial transcript
AudioPartial(a, engine_ok, up) ==
    LET over == DurationOver(a.buffer.len, a.sample_rate, PartialTenths)
        want == over /\ a.voiced_frames > MinVoicedFrames
    IN  IF ~want THEN [asr |-> a, sent |-> <<>>, calls |-> <<>>]
        ELSE LET partial == PartialTranscript(a, engine_ok)
                 fresh == partial # <<>> /\ partial # a.last_partial
             IN  [asr |-> IF fresh THEN [a EXCEPT !.last_partial = partial] ELSE a,
                  sent |-> IF fresh /\ up
                           THEN <<[type |-> "partial", text |-> partial]>> ELSE <<>>,
                  calls |-> PartialLog(a, engine_ok, "handle_audio")]

\* handle_audio would send a partial message for this session state
AudioPartialFresh(a, engine_ok) == AudioPartial(a, engine_ok, TRUE).sent # <<>>

\* variant for C18: a flush only after the classifier has heard speech
AudioFlushesAfterSpeech(a) ==
    /\ a.voiced_frames > 0
    /\ ~a.is_speaking
    /\ DurationOver(a.buffer.len, a.sample_rate, PartialTenths)

\* line 111: if not self.asr_session.is_speaking and buffer_duration > 0.5
AudioFlushes(a) ==
    ~a.is_speaking /\ DurationOver(a.buffer.len, a.sample_rate, PartialTenths)

\* lines 254-255 and handle_audio (lines 87-112); an exception of feed is
\* caught nowhere before the outer handler of stream_captions
RecvAudio(s) ==
    /\ ReceivesAudio(s)
    /\ rx' = [rx EXCEPT ![s] = @ + 1]
    /\ IF asr_session[s] = NoASR
       THEN /\ StaysInLoop
            /\ ev' = Event(s, "audio", <<>>, <<>>, <<>>)
            /\ UNCHANGED <<mgrVars, transcripts, last_final>>
       ELSE \E len \in env.lens, heard \in env.heard :
            \E vad \in VadChoices(asr_session[s], len) :
            \E a1 \in {FeedVad([asr_session[s] EXCEPT !.buffer =
                          BufferAppend(@, [len |-> len, heard |-> heard], rx[s] + 1)],
                          vad)} :
            IF FeedRaises(a1)
            THEN /\ Escapes(s, FALSE)
                 /\ asr_session' = [asr_session EXCEPT ![s] = a1]
                 /\ ev' = Event(s, "audio", <<>>, <<>>, <<>>)
                 /\ UNCHANGED <<db_session_id, save_transcripts, simplify_strength,
                                segment_count, transcripts, last_final>>
            ELSE
            \E ok1 \in Choice(WantsPartial(a1) /\ PartialCallsEngine(a1)) :
            \E fed \in {FeedPartial(a1, ok1)} :
            \E ok2 \in Choice(WantsPartial(fed.asr) /\ PartialCallsEngine(fed.asr)) :
            \E upP \in Choice(AudioPartialFresh(fed.asr, ok2)) :
            \E p \in {AudioPartial(fed.asr, ok2, upP)} :
               /\ StaysInLoop
               /\ IF AudioFlushes(p.asr)
                  THEN \E c \in FlushChoices(s, p.asr) :
                       \E f \in {ManagerFlush(s, p.asr, c.engine_ok, c.post_ok,
                                              c.up, c.db_ok)} :
                          /\ asr_session' = [asr_session EXCEPT ![s] = f.asr]
                          /\ segment_count' =
                                [segment_count EXCEPT ![s] = f.segment_count]
                          /\ transcripts' = transcripts \cup f.rows
                          /\ last_final' = LastFinalAfter(s, f.sent)
                          /\ ev' = Event(s, "audio", p.sent \o f.sent,
                                         fed.calls \o p.calls \o f.calls, f.flushes)
                  ELSE /\ asr_session' = [asr_session EXCEPT ![s] = p.asr]
                       /\ ev' = Event(s, "audio", p.sent, fed.calls \o p.calls, <<>>)
                       /\ UNCHANGED <<segment_count, transcripts, last_final>>
               /\ UNCHANGED <<db_session_id, save_transcripts, simplify_strength>>
    /\ UNCHANGED <<orfVars, limiterVars, last_start>>

\* ---------------------------------------------------------------------------
\* core/rate_limit.py: SlidingWindowRateLimiter.
\* Time is counted in ticks, TicksPerSecond of them to the second; time.time()
\* is taken never to run backwards. A window maps each client key to the list
\* of its (timestamp, count) entries; a key the dictionary does not hold and a
\* key holding the empty list are the same value here, as both count zero.

TicksPerSecond == 2
MaxRequests == 4
MaxBurst == 2

cleanup_interval == 60

\* the seconds of a minute and of an hour, in ticks
InTicks(n) == n * TicksPerSecond

ForwardedFor == {<<>>, <<"10.0.0.2", "10.0.0.1">>}
Hosts == {"10.0.0.1"}
UserIds == {""}
Paths == {"/v1/reading/score", "/v1/captions/stream"}

Requests == [forwarded : ForwardedFor, host : Hosts, user_id : UserIds, path : Paths]

\* the key is "<ip>" or "<ip>:<user>", held here as <<ip>> or <<ip, user>>
_get_client_key(request) ==
    LET client_ip == IF request.forwarded # <<>> THEN request.forwarded[1]
                     ELSE request.host
    IN  IF request.user_id # "" THEN <<client_ip, request.user_id>>
        ELSE <<client_ip>>

ClientKeys == {_get_client_key(r) : r \in Requests}

\* RateLimitConfig with a burst size b; one endpoint has limits of its own
RateLimitConfig(b) ==
    [requests_per_minute |-> 3, requests_per_hour |-> 4, burst_size |-> b,
     endpoint_limits |-> [pattern |-> "/v1/captions/", per_minute |-> 1, per_hour |-> 2]]

Configs == {RateLimitConfig(b) : b \in 1..MaxBurst}

StartsWithPattern(path, cfg) ==
    path = "/v1/captions/stream" /\ cfg.endpoint_limits.pattern = "/v1/captions/"

_get_endpoint_limits(path, cfg) ==
    IF StartsWithPattern(path, cfg)
    THEN [minute |-> cfg.endpoint_limits.per_minute, hour |-> cfg.endpoint_limits.per_hour]
    ELSE [minute |-> cfg.requests_per_minute, hour |-> cfg.requests_per_hour]

RECURSIVE _count_requests(_, _)
_count_requests(entries, cutoff) ==
    IF entries = <<>> THEN 0
    ELSE (IF Head(entries).ts > cutoff THEN Head(entries).count ELSE 0)
         + _count_requests(Tail(entries), cutoff)

Newer(entries, cutoff) ==
    LET after(e) == e.ts > cutoff IN SelectSeq(entries, after)

CleanupDue(current_time) ==
    ~ (current_time - last_cleanup < InTicks(cleanup_interval))

\* the three windows and _last_cleanup as _cleanup_old_entries leaves them
_cleanup_old_entries(current_time) ==
    IF ~ CleanupDue(current_time)
    THEN [second |-> second_windows, minute |-> minute_windows,
          hour |-> hour_windows, last |-> last_cleanup]
    ELSE [second |-> [k \in ClientKeys |->
                         Newer(second_windows[k], current_time - InTicks(1))],
          minute |-> [k \in ClientKeys |->
                         Newer(minute_windows[k], current_time - InTicks(60))],
          hour   |-> [k \in ClientKeys |->
                         Newer(hour_windows[k], current_time - InTicks(3600))],
          last   |-> current_time]

IntSeconds(t) == t \div TicksPerSecond

NoVerdict == [key |-> <<>>, time |-> 0, allowed |-> TRUE, limited_by |-> "none",
              headers |-> <<>>]

Verdict(key, t, allowed, by, headers) ==
    [key |-> key, time |-> t, allowed |-> allowed, limited_by |-> by,
     headers |-> headers]

\* the variant lets one request more through than burst_size
BurstReachedOffByOne(second_count, cfg) == second_count > cfg.burst_size

BurstReached(second_count, cfg) == second_count >= cfg.burst_size

Denied(key, t, by, headers, w) ==
    /\ verdict' = Verdict(key, t, FALSE, by, headers)
    /\ second_windows' = w.second
    /\ minute_windows' = w.minute
    /\ hour_windows' = w.hour
    /\ UNCHANGED allowed_log

Allowed(key, t, headers, w) ==
    LET entry_now == [ts |-> t, count |-> 1] IN
    /\ verdict' = Verdict(key, t, TRUE, "none", headers)
    /\ second_windows' = [w.second EXCEPT ![key] = Append(@, entry_now)]
    /\ minute_windows' = [w.minute EXCEPT ![key] = Append(@, entry_now)]
    /\ hour_windows' = [w.hour EXCEPT ![key] = Append(@, entry_now)]
    /\ allowed_log' = [allowed_log EXCEPT ![key] = Append(@, t)]

Advances == {0, 1, TicksPerSecond, InTicks(cleanup_interval)}

check_rate_limit(request) ==
    /\ req_budget > 0
    /\ req_budget' = req_budget - 1
    /\ \E d \in Advances :
         LET current_time == clock + d
             w == _cleanup_old_entries(current_time)
             client_key == _get_client_key(request)
             limits == _get_endpoint_limits(request.path, config)
             second_count == _count_requests(w.second[client_key],
                                             current_time - InTicks(1))
             minute_count == _count_requests(w.minute[client_key],
                                             current_time - InTicks(60))
             hour_count == _count_requests(w.hour[client_key],
                                           current_time - InTicks(3600))
         IN  /\ clock' = current_time
             /\ last_cleanup' = w.last
             /\ IF BurstReached(second_count, config)
                THEN Denied(client_key, current_time, "second",
                            [limit |-> config.burst_size, remaining |-> 0,
                             reset |-> IntSeconds(current_time) + 1,
                             retry_after |-> 1], w)
                ELSE IF minute_count >= limits.minute
                THEN Denied(client_key, current_time, "minute",
                            [limit |-> limits.minute, remaining |-> 0,
                             reset |-> IntSeconds(current_time) + 60,
                             retry_after |-> 60 - 60], w)
                ELSE IF hour_count >= limits.hour
                THEN Denied(client_key, current_time, "hour",
                            [limit |-> limits.hour, remaining |-> 0,
                             reset |-> IntSeconds(current_time) + 3600,
                             retry_after |-> 3600 - 3600], w)
                ELSE Allowed(client_key, current_time,
                             [limit |-> limits.minute,
                              remaining |-> limits.minute - minute_count - 1,
                              reset |-> IntSeconds(current_time) + 60], w)
    /\ UNCHANGED config
    /\ UNCHANGED <<orfVars, streamVars>>

NoEntries == [k \in ClientKeys |-> <<>>]

LimiterIdle ==
    /\ second_windows = NoEntries
    /\ minute_windows = NoEntries
    /\ hour_windows = NoEntries
    /\ last_cleanup = 0
    /\ clock = 0
    /\ verdict = NoVerdict
    /\ allowed_log = NoEntries

LimiterUnused ==
    /\ LimiterIdle
    /\ config = RateLimitConfig(1)
    /\ req_budget = 0

StreamIdle ==
    /\ pc = [s \in Sessions |-> "closed"]
    /\ active_sessions = {}
    /\ asr_session = [s \in Sessions |-> NoASR]
    /\ db_session_id = [s \in Sessions |-> NoneNum]
    /\ save_transcripts = [s \in Sessions |-> FALSE]
    /\ simplify_strength = [s \in Sessions |-> 0]
    /\ segment_count = [s \in Sessions |-> 0]
    /\ transcripts = {}
    /\ rx = [s \in Sessions |-> 0]
    /\ last_final = [s \in Sessions |-> NoFinal]
    /\ ev = NoEvent
    /\ last_start = [s \in Sessions |-> NoStart]

OrfUnused ==
    /\ entry = "none"
    /\ simple = NoSimple
    /\ reference_text = None
    /\ segment = NoSegment
    /\ ref_words = <<>>
    /\ hyp_words = <<>>
    /\ timed_hyp = <<>>
    /\ dp = <<>>
    /\ i = 0
    /\ j = 0
    /\ errors = <<>>
    /\ correct_count = 0
    /\ opc = "call"
    /\ result = NoResult

\* every sample rate, frame length and content; transcripts not saved
AnyTraffic ==
    [rates |-> SampleRates, lens |-> ChunkLens, heard |-> Heard,
     saves |-> {FALSE}, simplify |-> {0, 1}, tokens |-> {"absent"}]

\* one client speaking without a pause, transcripts not saved
SpeechTraffic ==
    [rates |-> {16000}, lens |-> {8000}, heard |-> {"word"},
     saves |-> {FALSE}, simplify |-> {0}, tokens |-> {"absent"}]

\* a client that may ask for the sample rate 0, which handle_start accepts
AnyRateTraffic ==
    [rates |-> {0, 16000}, lens |-> {1, 16000}, heard |-> {"word"},
     saves |-> {FALSE}, simplify |-> {0}, tokens |-> {"absent"}]

\* two clients, the same settings on both connections
PlainTraffic ==
    [rates |-> {16000}, lens |-> {16000}, heard |-> {"word"},
     saves |-> {FALSE}, simplify |-> {0}, tokens |-> {"absent"}]

\* one client sending five-second frames, speech or blank audio
LongTraffic ==
    [rates |-> {16000}, lens |-> {160000}, heard |-> {"blank", "word"},
     saves |-> {FALSE}, simplify |-> {0}, tokens |-> {"absent"}]

\* one client sending 50 ms frames of speech, with pauses of any length
PauseTraffic ==
    [rates |-> {16000}, lens |-> {1600}, heard |-> {"word"},
     saves |-> {FALSE}, simplify |-> {0}, tokens |-> {"absent"}]

\* one client, any save flag and any token on each start
SaveTraffic ==
    [rates |-> {16000}, lens |-> {32000}, heard |-> {"word"},
     saves |-> BOOLEAN, simplify |-> {0}, tokens |-> Tokens]

StreamUnused ==
    /\ StreamIdle
    /\ vad_available = FALSE
    /\ enable_asr = FALSE
    /\ env = AnyTraffic
    /\ ctl_budget = [s \in Sessions |-> 0]
    /\ audio_budget = [s \in Sessions |-> 0]

\* one connection, any traffic
Init ==
    /\ StreamIdle
    /\ OrfUnused
    /\ LimiterUnused
    /\ vad_available \in BOOLEAN
    /\ enable_asr \in BOOLEAN
    /\ env = AnyTraffic
    /\ ctl_budget = [s \in Sessions |-> IF s = 1 THEN MaxCtl ELSE 0]
    /\ audio_budget = [s \in Sessions |-> IF s = 1 THEN MaxAudio ELSE 0]

\* two connections, interleaved
InitTwo ==
    /\ StreamIdle
    /\ OrfUnused
    /\ LimiterUnused
    /\ vad_available = FALSE
    /\ enable_asr \in BOOLEAN
    /\ env = PlainTraffic
    /\ ctl_budget = [s \in Sessions |-> MaxCtlEach]
    /\ audio_budget = [s \in Sessions |-> MaxAudioEach]

\* one connection, any sample rate
InitAnyRate ==
    /\ StreamIdle
    /\ OrfUnused
    /\ LimiterUnused
    /\ vad_available \in BOOLEAN
    /\ enable_asr = TRUE
    /\ env = AnyRateTraffic
    /\ ctl_budget = [s \in Sessions |-> IF s = 1 THEN MaxCtl ELSE 0]
    /\ audio_budget = [s \in Sessions |-> IF s = 1 THEN MaxAudio ELSE 0]

\* one connection, a long utterance
InitSpeech ==
    /\ StreamIdle
    /\ OrfUnused
    /\ LimiterUnused
    /\ vad_available = TRUE
    /\ enable_asr = TRUE
    /\ env = SpeechTraffic
    /\ ctl_budget = [s \in Sessions |-> IF s = 1 THEN MaxSpeechCtl ELSE 0]
    /\ audio_budget = [s \in Sessions |-> IF s = 1 THEN MaxSpeechAudio ELSE 0]

\* one connection, long frames
InitLong ==
    /\ StreamIdle
    /\ OrfUnused
    /\ LimiterUnused
    /\ vad_available \in BOOLEAN
    /\ enable_asr = TRUE
    /\ env = LongTraffic
    /\ ctl_budget = [s \in Sessions |-> IF s = 1 THEN MaxLongCtl ELSE 0]
    /\ audio_budget = [s \in Sessions |-> IF s = 1 THEN MaxLongAudio ELSE 0]

\* one connection, a working classifier, short frames
InitPause ==
    /\ StreamIdle
    /\ OrfUnused
    /\ LimiterUnused
    /\ vad_available = TRUE
    /\ enable_asr = TRUE
    /\ env = PauseTraffic
    /\ ctl_budget = [s \in Sessions |-> IF s = 1 THEN MaxPauseCtl ELSE 0]
    /\ audio_budget = [s \in Sessions |-> IF s = 1 THEN MaxPauseAudio ELSE 0]

\* one connection, transcripts saved on request
InitSave ==
    /\ StreamIdle
    /\ OrfUnused
    /\ LimiterUnused
    /\ vad_available = FALSE
    /\ enable_asr = TRUE
    /\ env = SaveTraffic
    /\ ctl_budget = [s \in Sessions |-> IF s = 1 THEN MaxSaveCtl ELSE 0]
    /\ audio_budget = [s \in Sessions |-> IF s = 1 THEN MaxSaveAudio ELSE 0]

Next ==
    \E s \in Sessions :
        \/ Connect(s)
        \/ SendReady(s)
        \/ SendFailure(s)
        \/ RecvTimeout(s)
        \/ RecvDisconnect(s)
        \/ RecvBadJson(s)
        \/ RecvNonObject(s)
        \/ RecvUnknownType(s)
        \/ RecvPong(s)
        \/ RecvStart(s)
        \/ RecvStop(s)
        \/ RecvAudio(s)

Spec == Init /\ [][Next]_vars

SpecTwo == InitTwo /\ [][Next]_vars

SpecSpeech == InitSpeech /\ [][Next]_vars

SpecAnyRate == InitAnyRate /\ [][Next]_vars

SpecLong == InitLong /\ [][Next]_vars

SpecPause == InitPause /\ [][Next]_vars

SpecSave == InitSave /\ [][Next]_vars

----------------------------------------------------------------------------
(* Inputs of the scoring calls                                             *)

\* score_simple's arguments: small counts and the documented example
\* (words_read=100, seconds=60, errors=5)
WordsRead == 0..MaxWordsRead \cup {100}
Seconds == 0..MaxSeconds \cup {60}
ErrorCounts == 0..MaxErrorCount \cup {5}

AlignWords == {<<"t", "h", "e">>, <<"c", "a", "t">>, <<"s", "a", "t">>}

TextChars == {"a", "A", "'", " "}
Durations == {0, 30000}

\* the word lists of a TranscriptSegment as batch_transcribe builds them
\* (w.word.strip() for each word the engine heard): the words of a heard text
SegWordLists == {Split(t) : t \in SeqsUpTo(TextChars, MaxHypLen)}

SegmentOf(ws, d) ==
    [words |-> [k \in 1..Len(ws) |-> [word |-> ws[k], start |-> k - 1]],
     end |-> d]

OrfIdle ==
    /\ dp = <<>>
    /\ i = 0
    /\ j = 0
    /\ errors = <<>>
    /\ correct_count = 0
    /\ opc = "call"
    /\ result = NoResult

InitAlign ==
    /\ entry = "align_and_score"
    /\ simple = NoSimple
    /\ reference_text = None
    /\ segment = NoSegment
    /\ ref_words \in SeqsUpTo(AlignWords, MaxAlignLen)
    /\ hyp_words \in SeqsUpTo(AlignWords, MaxAlignLen)
    /\ timed_hyp = [k \in 1..Len(hyp_words) |-> k - 1]
    /\ OrfIdle
    /\ StreamUnused
    /\ LimiterUnused

InitScore ==
    /\ \/ /\ entry \in ScoreEntries
          /\ simple = NoSimple
          /\ reference_text \in {None} \cup SeqsUpTo(TextChars, MaxTextLen)
          /\ \E ws \in SegWordLists, d \in Durations :
                 segment = SegmentOf(ws, d)
       \/ /\ entry = "score_simple"
          /\ simple \in [words_read : WordsRead, seconds : Seconds,
                          errors : ErrorCounts]
          /\ reference_text = None
          /\ segment = NoSegment
    /\ ref_words = <<>>
    /\ hyp_words = <<>>
    /\ timed_hyp = <<>>
    /\ OrfIdle
    /\ StreamUnused
    /\ LimiterUnused

NextAlign == AlignCall \/ BtMatch \/ BtSub \/ BtIns \/ BtDel \/ BtExit \/ AlignReturn

NextScore ==
    \/ ScoreSimple
    \/ ScoreWithRef
    \/ ScoreNoRef
    \/ BtMatch
    \/ BtSub
    \/ BtIns
    \/ BtDel
    \/ BtExit
    \/ ScoreReturn

SpecAlign == InitAlign /\ [][NextAlign]_vars

\* word lists over two words, repeated words in most of them
LoopWords == {<<"t", "h", "e">>, <<"c", "a", "t">>}

InitAlignLoop ==
    /\ entry = "align_and_score"
    /\ simple = NoSimple
    /\ reference_text = None
    /\ segment = NoSegment
    /\ ref_words \in SeqsUpTo(LoopWords, MaxAlignLen)
    /\ hyp_words \in SeqsUpTo(LoopWords, MaxAlignLen)
    /\ timed_hyp = [k \in 1..Len(hyp_words) |-> k - 1]
    /\ OrfIdle
    /\ StreamUnused
    /\ LimiterUnused

\* the call runs on: a statement that can be executed is executed
SpecAlignFair == InitAlignLoop /\ [][NextAlign]_vars /\ WF_vars(NextAlign)

SpecScore == InitScore /\ [][NextScore]_vars

\* a limiter just constructed, with any of the configurations
InitRate ==
    /\ LimiterIdle
    /\ config \in Configs
    /\ req_budget = MaxRequests
    /\ OrfUnused
    /\ StreamUnused

NextRate == \E request \in Requests : check_rate_limit(request)

SpecRate == InitRate /\ [][NextRate]_vars


----------------------------------------------------------------------------
(* Claims about orf.py                                                     *)

CountType(errs, type) == Cardinality({k \in 1..Len(errs) : errs[k].type = type})

\* C1: for every reference and hypothesis word list, the errors and
\* correct_count that align_and_score returns satisfy
\* correct_count + #sub + #del = len(ref_words).
C1_Conservation ==
    (entry = "align_and_score" /\ opc = "done") =>
        result.correct_count + CountType(result.errors, "sub")
            + CountType(result.errors, "del") = Len(ref_words)

\* a returned alignment that has a match, a substitution and a deletion
C1_Witness ==
    /\ entry = "align_and_score"
    /\ opc = "done"
    /\ result.correct_count > 0
    /\ CountType(result.errors, "sub") > 0
    /\ CountType(result.errors, "del") > 0

\* the words differ only in letter case or in punctuation characters
Canonical(w) == RemoveChars(LowerText(w), NormPunct)

SameUpToCaseAndPunct(u, w) == Canonical(u) = Canonical(w)

\* C5: reference and hypothesis are normalised by the same rule, so when the
\* words read are, one by one, the reference's words up to letter case and
\* punctuation (leading, trailing or inside), no alignment error is reported.
C5_SameNormalization ==
    (/\ entry \in ScoreEntries
     /\ opc = "done"
     /\ Truthy(reference_text)
     /\ Len(Split(reference_text)) = Len(segment.words)
     /\ \A k \in 1..Len(segment.words) :
            SameUpToCaseAndPunct(Split(reference_text)[k], segment.words[k].word))
    => result.errors = <<>>

\* C6: a supplied reference that yields zero reference words (empty,
\* whitespace-only or punctuation-only) gives accuracy None, never a number.
C6_EmptyReferenceAccuracyNone ==
    (/\ entry \in ScoreEntries
     /\ opc = "done"
     /\ reference_text # None
     /\ Split(normalize_text(reference_text)) = <<>>)
    => result.accuracy = NoneNum

----------------------------------------------------------------------------
(* Claims about the streaming session (captions.py, asr_client.py)         *)

Sends(type) == \E k \in 1..Len(ev.sent) : ev.sent[k].type = type

\* C2: within one session the segment_id values of the 'final' messages are
\* strictly increasing in the order of the flushes, and each final covers
\* audio received after the audio of the final before it, also when a
\* second start has replaced the ASR session in between.
C2_FinalsInOrder ==
    [][\A s \in Sessions :
          last_final'[s] # last_final[s] =>
              /\ last_final'[s].segment_id > last_final[s].segment_id
              /\ last_final'[s].first > last_final[s].last
              /\ last_final'[s].first <= last_final'[s].last]_vars

\* a second final sent after a second start replaced the ASR session: the
\* new session has built its first segment, the client got segment_id 2
C2_Witness ==
    \E s \in Sessions :
        /\ ev.sid = s
        /\ Sends("final")
        /\ last_final[s].segment_id = 2
        /\ asr_session[s].segment_id = 1

\* C3: when a session ends by a stop message or by a transport disconnect,
\* a flush of the pending buffered audio is attempted before it terminates.
C3_FlushOnStopAndDisconnect ==
    (/\ ev.msg \in {"stop", "disconnect"}
     /\ pc[ev.sid] = "ended"
     /\ asr_session[ev.sid] # NoASR
     /\ (ev.msg = "disconnect" => asr_session[ev.sid].buffer.len > 0))
    => Len(ev.flushes) >= 1

\* C4: a JSON object with an unknown type is answered with an error message
\* and the session keeps running.
C4_UnknownTypeAnswered ==
    ev.msg = "unknown" => Sends("error") /\ pc[ev.sid] = "loop"

\* the engine was called by this flush and returned its segments
AdapterReturned(f) == \E k \in 1..Len(f.calls) : f.calls[k].ok

\* the segment texts the engine returned to this flush
AdapterTexts(f) == EngineSegments(f.before.buffer)

\* buffer, frame counters and last_partial are back to their initial values
IsReset(a) ==
    /\ a.buffer.len = 0
    /\ a.voiced_frames = 0
    /\ a.silent_frames = 0
    /\ a.last_partial = <<>>

\* C7 as stated: after a flush_segment call that returns a segment the
\* buffer length, voiced_frames and silent_frames are 0 and last_partial is
\* empty; and with at least min_segment_duration * sample_rate * 2 bytes
\* buffered and non-empty text from the adapter, a segment is returned.
C7_FlushReturnsSegment ==
    \A k \in 1..Len(ev.flushes) :
        LET f == ev.flushes[k]
        IN  /\ f.segment # NoneSeg => IsReset(f.after)
            /\ (/\ f.before.buffer.len * 10
                      >= MinSegmentTenths * f.before.sample_rate * 2
                 /\ AdapterReturned(f)
                 /\ \E n \in 1..Len(AdapterTexts(f)) : AdapterTexts(f)[n] # <<>>)
               => f.segment # NoneSeg

\* C7, amended: the same, for adapter text that holds a character other
\* than white space.
C7_FlushReturnsSpokenSegment ==
    \A k \in 1..Len(ev.flushes) :
        LET f == ev.flushes[k]
        IN  /\ f.segment # NoneSeg => IsReset(f.after)
            /\ (/\ f.before.buffer.len * 10
                      >= MinSegmentTenths * f.before.sample_rate * 2
                 /\ AdapterReturned(f)
                 /\ \E n \in 1..Len(AdapterTexts(f)) :
                        \E c \in 1..Len(AdapterTexts(f)[n]) :
                            ~IsSpace(AdapterTexts(f)[n][c]))
               => f.segment # NoneSeg

\* a flush that returned a segment from a session with voiced and silent
\* frames counted
C7_Witness ==
    \E k \in 1..Len(ev.flushes) :
        /\ ev.flushes[k].segment # NoneSeg
        /\ ev.flushes[k].before.voiced_frames > 0
        /\ ev.flushes[k].before.silent_frames > 0
        /\ ev.flushes[k].before.buffer.len > 0

\* C8: with fewer than min_segment_duration * sample_rate * 2 bytes buffered
\* flush_segment returns None, does not call the adapter and leaves the
\* session as it was.
C8_ShortBufferNoSegment ==
    \A k \in 1..Len(ev.flushes) :
        LET f == ev.flushes[k]
        IN  f.before.buffer.len * 10 < MinSegmentTenths * f.before.sample_rate * 2
            => /\ f.segment = NoneSeg
               /\ f.calls = <<>>
               /\ f.after = f.before

\* a flush of a buffer that audio was fed to and that is still too short
C8_Witness ==
    \E k \in 1..Len(ev.flushes) :
        LET f == ev.flushes[k]
        IN  /\ f.before.buffer.len > 1
            /\ f.before.buffer.len * 10 < MinSegmentTenths * f.before.sample_rate * 2
            /\ f.segment = NoneSeg

\* C9: a failed adapter call, partial or final, does not end the session and
\* gives the client no error message, no partial for a failed partial call
\* and no final for a failed final call; after audio the loop goes on.
C9_AdapterFailureContained ==
    \A k \in 1..Len(ev.calls) :
        ~ev.calls[k].ok =>
            /\ ~Sends("error")
            /\ (ev.calls[k].via = "handle_audio" => ~Sends("partial"))
            /\ (ev.calls[k].kind = "final" => ~Sends("final"))
            /\ (ev.msg = "audio" =>
                    pc[ev.sid] = "loop" /\ ev.sid \in active_sessions)

\* handle_audio's partial call failed while the speaker was talking
C9_Witness ==
    /\ ev.msg = "audio"
    /\ \E k \in 1..Len(ev.calls) :
           /\ ev.calls[k].kind = "partial"
           /\ ev.calls[k].via = "handle_audio"
           /\ ~ev.calls[k].ok
    /\ pc[ev.sid] = "loop"

\* C10 as stated: an ended session has no entry, and active_sessions holds
\* exactly the sessions whose message loop was entered and that have not
\* ended yet.
C10_ActiveIsInLoop ==
    /\ \A s \in Sessions : pc[s] = "ended" => s \notin active_sessions
    /\ active_sessions = {s \in Sessions : pc[s] \in {"loop", "failing"}}

\* C10, amended: an ended session has no entry, and active_sessions holds
\* exactly the sessions that were accepted and registered (line 215) and
\* whose finally block has not run yet, the ready message sent or not.
C10_ActiveIsRegistered ==
    /\ \A s \in Sessions : pc[s] = "ended" => s \notin active_sessions
    /\ active_sessions =
          {s \in Sessions : pc[s] \in {"accepted", "loop", "failing"}}

\* one session ended after an exception left its loop while the other one
\* is in its message loop
C10_Witness ==
    \E s, t \in Sessions :
        /\ ev.sid = s
        /\ ev.msg = "failure"
        /\ pc[s] = "ended"
        /\ pc[t] = "loop"
        /\ active_sessions = {t}

\* the message that took the session out of its loop is a stop, a transport
\* disconnect or one whose reply could not be sent
EndedByStopOrTransport ==
    \/ ev.msg \in {"stop", "disconnect"}
    \/ ev.msg \in {"timeout", "bad_json", "non_object", "start"} /\ ev.sent = <<>>

\* C11: the message loop ends only on a stop message or a transport-level
\* event (disconnect, failed send); no start, pong, audio frame, malformed
\* message, handler exception or receive timeout ends it.
C11_LoopEndsOnStopOrTransport ==
    \A s \in Sessions :
        (/\ ev.sid = s
         /\ pc[s] \in {"failing", "ended"}
         /\ ev.msg \notin {"connect", "ready", "failure"})
        => EndedByStopOrTransport

\* C12: with sessions interleaved, a message handled by one session leaves
\* every other session's buffer, voiced/silent counters, is_speaking flag,
\* last_partial, segment list and segment counters unchanged.
C12_SessionsIsolated ==
    [][\A t \in Sessions :
          t # ev'.sid =>
              /\ asr_session'[t] = asr_session[t]
              /\ segment_count'[t] = segment_count[t]
              /\ last_final'[t] = last_final[t]]_vars

\* one session has just flushed a segment on stop while the other one
\* still holds the audio it buffered
C12_Witness ==
    \E s, t \in Sessions :
        /\ s # t
        /\ ev.sid = s
        /\ ev.msg = "stop"
        /\ \E k \in 1..Len(ev.flushes) : ev.flushes[k].segment # NoneSeg
        /\ asr_session[t] # NoASR
        /\ asr_session[t].buffer.len > 0
        /\ asr_session[s].buffer.len = 0

----------------------------------------------------------------------------
(* Further claims about orf.py                                             *)

\* the list w without its k-th word
RemoveAt(w, k) == [n \in 1..(Len(w) - 1) |-> IF n < k THEN w[n] ELSE w[n + 1]]

\* hyp_words is ref_words with the k-th word replaced by another word
OneReplaced(k) ==
    /\ Len(hyp_words) = Len(ref_words)
    /\ k \in 1..Len(ref_words)
    /\ hyp_words[k] # ref_words[k]
    /\ \A n \in 1..Len(ref_words) : n # k => hyp_words[n] = ref_words[n]

\* hyp_words is ref_words with the k-th word removed
OneRemoved(k) == k \in 1..Len(ref_words) /\ hyp_words = RemoveAt(ref_words, k)

\* hyp_words is ref_words with an extra word at position k
OneExtra(k) == k \in 1..Len(hyp_words) /\ ref_words = RemoveAt(hyp_words, k)

AlignDone == entry = "align_and_score" /\ opc = "done"

\* C13: a hypothesis that is one word-level edit away from the reference
\* gives exactly one error of that edit's kind, with the words of the edit,
\* and correct_count = len(ref) - 1 (replaced, removed) or len(ref) (extra).
C13_SingleEdit ==
    AlignDone =>
        \A k \in 1..MaxAlignLen :
            /\ OneReplaced(k) =>
                  /\ Len(result.errors) = 1
                  /\ result.errors[1].type = "sub"
                  /\ result.errors[1].ref = ref_words[k]
                  /\ result.errors[1].hyp = hyp_words[k]
                  /\ result.correct_count = Len(ref_words) - 1
            /\ OneRemoved(k) =>
                  /\ Len(result.errors) = 1
                  /\ result.errors[1].type = "del"
                  /\ result.errors[1].ref = ref_words[k]
                  /\ result.errors[1].hyp = None
                  /\ result.correct_count = Len(ref_words) - 1
            /\ OneExtra(k) =>
                  /\ Len(result.errors) = 1
                  /\ result.errors[1].type = "ins"
                  /\ result.errors[1].ref = None
                  /\ result.errors[1].hyp = hyp_words[k]
                  /\ result.correct_count = Len(ref_words)

\* a returned alignment of a reference whose middle word was removed, the
\* removed word being followed by a different one
C13_Witness ==
    /\ AlignDone
    /\ Len(ref_words) = 3
    /\ OneRemoved(2)
    /\ ref_words[2] # ref_words[3]
    /\ Len(result.errors) = 1

\* C14: an empty hypothesis against a reference of n > 0 words gives n
\* errors, all 'del', one per reference word in reference order, each with
\* hyp = None and time = None, and correct_count = 0.
C14_AllDeletions ==
    (AlignDone /\ hyp_words = <<>> /\ Len(ref_words) > 0) =>
        /\ result.errors =
              [k \in 1..Len(ref_words) |->
                  ReadingError("del", ref_words[k], None, NoneNum)]
        /\ result.correct_count = 0

\* an empty hypothesis against three reference words, not all the same
C14_Witness ==
    /\ AlignDone
    /\ hyp_words = <<>>
    /\ Len(ref_words) = 3
    /\ ref_words[1] # ref_words[3]
    /\ Len(result.errors) = 3

SimpleDone == entry = "score_simple" /\ opc = "done"

AudioDone == entry \in ScoreEntries /\ opc = "done"

\* C15: with a zero duration no division by zero happens: score_simple with
\* seconds = 0 computes wpm and wcpm against one second, score_audio and
\* score_audio_file with a transcript duration of 0 against 0.1 s.
C15_ZeroDurationFloor ==
    /\ (SimpleDone /\ simple.seconds = 0) =>
          /\ result.wpm = simple.words_read * 600
          /\ result.wcpm = (simple.words_read - simple.errors) * 600
    /\ (AudioDone /\ segment.end = 0) =>
          /\ result.wpm = Len(hyp_words) * 6000
          /\ Truthy(reference_text) => result.wcpm = correct_count * 6000

\* score_audio returned for a transcript of duration 0 with words read
\* correctly against the reference
C15_Witness ==
    /\ AudioDone
    /\ segment.end = 0
    /\ Truthy(reference_text)
    /\ correct_count > 0
    /\ result.wcpm > 0

\* v is num / den rounded to the nearest integer (den > 0)
Nearest(v, num, den) ==
    LET diff == v * den - num
    IN  2 * (IF diff >= 0 THEN diff ELSE 0 - diff) <= den

\* C16: for words_read >= 0, errors >= 0 and seconds >= 1 score_simple
\* returns wpm = words_read/seconds*60, wcpm = (words_read-errors)/seconds*60
\* and accuracy = max(0, 1 - errors/max(words_read,1)), rounded once at the
\* output (wpm and wcpm to tenths, accuracy to thousandths); with errors = 0,
\* wcpm = wpm and accuracy = 1.0, also for words_read = 0.
C16_ScoreSimpleArithmetic ==
    (SimpleDone /\ simple.seconds >= 1) =>
        LET w == simple.words_read
            e == simple.errors
            mw == IF w >= 1 THEN w ELSE 1
        IN  /\ Nearest(result.wpm, w * 600, simple.seconds)
            /\ Nearest(result.wcpm, (w - e) * 600, simple.seconds)
            /\ Nearest(result.accuracy,
                       (IF mw - e >= 0 THEN mw - e ELSE 0) * 1000, mw)
            /\ e = 0 => result.wcpm = result.wpm /\ result.accuracy = 1000
            /\ (w = 100 /\ simple.seconds = 60 /\ e = 5) =>
                  /\ result.wpm = 1000
                  /\ result.wcpm = 950
                  /\ result.accuracy = 950

\* score_simple returned for a rate that is no whole number of tenths
C16_Witness ==
    /\ SimpleDone
    /\ simple.seconds = 60
    /\ simple.words_read = 3
    /\ simple.errors = 1
    /\ result.wpm = 30
    /\ result.accuracy = 667

\* C17: every accuracy that scoring returns lies in [0, 1]: for
\* score_simple also with errors > words_read, for score_audio and
\* score_audio_file with a reference, where correct_count never exceeds the
\* number of reference words.
C17_AccuracyInUnitInterval ==
    /\ SimpleDone => result.accuracy >= 0 /\ result.accuracy <= 1000
    /\ (AudioDone /\ Truthy(reference_text)) =>
          /\ result.accuracy >= 0
          /\ result.accuracy <= 1000
          /\ correct_count <= Len(ref_words)

\* score_simple returned for more errors than words read
C17_Witness ==
    /\ SimpleDone
    /\ simple.errors > simple.words_read
    /\ simple.words_read > 0
    /\ result.accuracy = 0

----------------------------------------------------------------------------
(* Further claims about the streaming session                              *)

\* the last message was an audio frame handled with an ASR session
AudioHandled == ev.msg = "audio" /\ asr_session[ev.sid] # NoASR

\* without a flush the buffer is what feed left: not more than 0.5 s
NoFlushOnlyUpToHalfSecond ==
    ev.flushes = <<>> =>
        asr_session[ev.sid].buffer.len * 10
            <= PartialTenths * asr_session[ev.sid].sample_rate * 2

C19_BadJsonSoftError ==
    [][ev'.msg = "bad_json" =>
          /\ mgrVars' = mgrVars
          /\ transcripts' = transcripts
          /\ rx' = rx
          /\ last_final' = last_final
          /\ \/ ev'.sent = <<[type |-> "error"]>> /\ pc'[ev'.sid] = "loop"
             \/ ev'.sent = <<>> /\ pc'[ev'.sid] # "loop"]_vars

\* an unparseable message answered with an error while the session holds
\* buffered audio
C19_Witness ==
    /\ ev.msg = "bad_json"
    /\ ev.sent = <<[type |-> "error"]>>
    /\ pc[ev.sid] = "loop"
    /\ asr_session[ev.sid] # NoASR
    /\ asr_session[ev.sid].buffer.len > 0

\* C20: a receive timeout sends a ping and the session goes back to
\* waiting; a timeout ends the session only when the ping cannot be sent.
C20_TimeoutSendsPing ==
    ev.msg = "timeout" =>
        IF pc[ev.sid] = "loop"
        THEN ev.sent = <<[type |-> "ping"]>>
        ELSE ev.sent = <<>> /\ pc[ev.sid] = "ended"

\* a session that got nothing but timeouts and is still waiting: no start
\* was handled, no audio received, the budget of text events is used up
C20_Witness ==
    /\ ev.msg = "timeout"
    /\ ev.sent = <<[type |-> "ping"]>>
    /\ pc[ev.sid] = "loop"
    /\ ctl_budget[ev.sid] = 0
    /\ asr_session[ev.sid] = NoASR
    /\ rx[ev.sid] = 0

----------------------------------------------------------------------------
(* Claims about the scoring results and the alignment (orf.py)             *)

\* C21: without a reference text score_audio and score_audio_file return
\* wcpm = None and accuracy = None with an empty error list; with a
\* reference of at least one word both wcpm and accuracy are present.
C21_NoReferenceAbsent ==
    AudioDone =>
        /\ (reference_text = None \/ reference_text = <<>>) =>
              /\ result.wcpm = NoneNum
              /\ result.accuracy = NoneNum
              /\ result.errors = <<>>
        /\ (reference_text # None
              /\ Split(normalize_text(reference_text)) # <<>>) =>
              /\ result.wcpm # NoneNum
              /\ result.accuracy # NoneNum

\* a transcript with words scored without a reference
C21_Witness ==
    /\ AudioDone
    /\ reference_text = None
    /\ Len(hyp_words) > 0
    /\ result.wpm > 0
    /\ result.wcpm = NoneNum
    /\ result.accuracy = NoneNum

\* C22: for every non-empty word list w, align_and_score(w, w) returns no
\* error and correct_count = len(w); the accuracy computed from it is 1.0.
C22_IdentityAlignment ==
    (AlignDone /\ hyp_words = ref_words /\ Len(ref_words) > 0) =>
        /\ result.errors = <<>>
        /\ result.correct_count = Len(ref_words)
        /\ AccuracyOf(result.correct_count, Len(ref_words)) = 1000

\* "the cat sat" aligned with itself
C22_Witness ==
    /\ AlignDone
    /\ ref_words = <<<<"t", "h", "e">>, <<"c", "a", "t">>, <<"s", "a", "t">>>>
    /\ hyp_words = ref_words
    /\ result.correct_count = 3

\* ---------------------------------------------------------------------------
\* C23

\* how many requests of a log were allowed in the second that ends at t,
\* the instants after t - 1 s up to and including t
AllowedInSecondBefore(log, t) ==
    Cardinality({n \in 1..Len(log) : log[n] > t - InTicks(1) /\ log[n] <= t})

BurstBounded ==
    \A k \in ClientKeys : \A n \in 1..Len(allowed_log[k]) :
        AllowedInSecondBefore(allowed_log[k], allowed_log[k][n]) <= config.burst_size

NothingRecorded ==
    \A k \in ClientKeys :
        /\ Len(second_windows'[k]) <= Len(second_windows[k])
        /\ Len(minute_windows'[k]) <= Len(minute_windows[k])
        /\ Len(hour_windows'[k]) <= Len(hour_windows[k])

\* C23: for each client key, the requests check_rate_limit allows in any one
\* second (the second that ends with an allowed request) number at most
\* burst_size; a request that arrives when burst_size requests of its client
\* were allowed during the preceding second is denied and its headers carry
\* Retry-After; a denied request adds no entry to any window.
C23_BurstLimit ==
    [][ req_budget' < req_budget =>
          /\ BurstBounded'
          /\ AllowedInSecondBefore(allowed_log[verdict'.key], verdict'.time)
                 >= config.burst_size =>
                 /\ ~ verdict'.allowed
                 /\ "retry_after" \in DOMAIN verdict'.headers
          /\ ~ verdict'.allowed => NothingRecorded ]_vars

C23_Witness ==
    /\ ~ verdict.allowed
    /\ verdict.limited_by = "second"
    /\ config.burst_size > 1
    /\ AllowedInSecondBefore(allowed_log[verdict.key], verdict.time) = config.burst_size
    /\ req_budget < MaxRequests

\* ---------------------------------------------------------------------------
\* C24

\* the ASR session as handle_audio held it after feed and the partial
\* transcript, before any flush of the same chunk
SessionAfterFeed(s) ==
    IF ev.flushes = <<>> THEN asr_session[s] ELSE ev.flushes[1].before

\* every partial transcription of this chunk answered, the same way
PartialCallsAnswered ==
    \A k \in 1..Len(ev.calls) : ev.calls[k].kind = "partial" => ev.calls[k].ok

SendsPartial(text) ==
    \E k \in 1..Len(ev.sent) :
        ev.sent[k].type = "partial" /\ ev.sent[k].text = text

\* the text the adapter gives for the buffer handle_audio holds
BufferedPartial(s) == PartialTranscript(SessionAfterFeed(s), TRUE)

PartialDue(s) ==
    /\ WantsPartial(SessionAfterFeed(s))
    /\ PartialCallsAnswered
    /\ BufferedPartial(s) # <<>>

PartialDelivered(s) == SendsPartial(BufferedPartial(s))

\* C24: when an audio chunk is handled with more than 0.5 s buffered and more
\* than 5 voiced frames, the adapter answering every call for the buffer with
\* the same text, and that text is non-empty and differs from the partial
\* text the session held before the chunk, a partial message carrying the
\* text is sent to the client.
C24_PartialSent ==
    [][ \A s \in Sessions :
          ( /\ rx'[s] = rx[s] + 1
            /\ asr_session[s] # NoASR
            /\ pc'[s] = "loop"
            /\ PartialDue(s)'
            /\ BufferedPartial(s)' # asr_session[s].last_partial )
          => PartialDelivered(s)' ]_vars

\* ---------------------------------------------------------------------------
\* C25

\* C25: the buffered audio of a session never exceeds max_segment_duration:
\* len(buffer) <= max_segment_duration * sample_rate * 2 in every state, also
\* when the speaker never pauses or every flush attempt yields empty text.
C25_BufferBounded ==
    \A s \in Sessions :
        asr_session[s] # NoASR =>
            asr_session[s].buffer.len
                <= max_segment_duration * asr_session[s].sample_rate * 2

\* ---------------------------------------------------------------------------
\* C26

\* the edit operations that agree with the DP table at cell (a, b)
ConsistentOps(a, b) ==
    {op \in {"match", "sub", "ins", "del"} :
        \/ op = "match" /\ a > 0 /\ b > 0 /\ ref_words[a] = hyp_words[b]
        \/ op = "sub" /\ a > 0 /\ b > 0 /\ ref_words[a] # hyp_words[b]
                      /\ dp[a][b] = dp[a - 1][b - 1] + 1
        \/ op = "ins" /\ b > 0 /\ dp[a][b] = dp[a][b - 1] + 1
        \/ op = "del" /\ a > 0 /\ dp[a][b] = dp[a - 1][b] + 1}

FirstInOrder(ops) ==
    IF "match" \in ops THEN "match"
    ELSE IF "sub" \in ops THEN "sub"
    ELSE IF "ins" \in ops THEN "ins"
    ELSE IF "del" \in ops THEN "del"
    ELSE "none"

\* one turn of the backtracking loop
BacktrackStep == opc = "backtrack" /\ (i' # i \/ j' # j)

\* the operation a turn of the loop has taken, read off what it changed
OpTaken ==
    IF errors' = errors
    THEN IF i' = i - 1 /\ j' = j - 1 /\ correct_count' = correct_count + 1
         THEN "match" ELSE "none"
    ELSE IF Len(errors') # Len(errors) + 1 THEN "none"
    ELSE LET e == errors'[Len(errors')] IN
         IF e.type = "sub" /\ i' = i - 1 /\ j' = j - 1 THEN "sub"
         ELSE IF e.type = "ins" /\ i' = i /\ j' = j - 1 THEN "ins"
         ELSE IF e.type = "del" /\ i' = i - 1 /\ j' = j THEN "del"
         ELSE "none"

\* C26: at every backtracking step the operation taken is the first of
\* match, substitution, insertion, deletion that is consistent with the DP
\* table at the current cell, also where several are; the step is thereby
\* determined by the cell.
C26_TieBreakOrder ==
    [][ BacktrackStep =>
          /\ ConsistentOps(i, j) # {}
          /\ OpTaken = FirstInOrder(ConsistentOps(i, j)) ]_vars

\* a substitution has just been recorded at a cell where an insertion and a
\* deletion agreed with the table as well
C26_Witness ==
    /\ opc = "backtrack"
    /\ errors # <<>>
    /\ i < Len(ref_words)
    /\ j < Len(hyp_words)
    /\ errors[Len(errors)] = ReadingError("sub", ref_words[i + 1], hyp_words[j + 1],
                                          TimeVal(timed_hyp, j + 1))
    /\ {"sub", "ins", "del"} \subseteq ConsistentOps(i + 1, j + 1)

\* ---------------------------------------------------------------------------
\* C28

\* the Levenshtein distance of two word lists: the least number of single-word
\* insertions, deletions and substitutions that turn one into the other
RECURSIVE Levenshtein(_, _)
Levenshtein(a, b) ==
    IF a = <<>> THEN Len(b)
    ELSE IF b = <<>> THEN Len(a)
    ELSE Min3(Levenshtein(Tail(a), b) + 1,
              Levenshtein(a, Tail(b)) + 1,
              Levenshtein(Tail(a), Tail(b)) + (IF Head(a) = Head(b) THEN 0 ELSE 1))

ErrorsAreDistance ==
    /\ Len(result.errors) = dp[Len(ref_words)][Len(hyp_words)]
    /\ Len(result.errors) = Levenshtein(ref_words, hyp_words)

\* C28: for any two word lists the backtracking loop terminates, and the
\* number of errors align_and_score returns equals the Levenshtein distance
\* of the lists, the value of the DP table's final cell.
C28_TerminatesWithDistance == <>[](AlignDone /\ ErrorsAreDistance)

C28_Witness ==
    /\ AlignDone
    /\ Len(result.errors) >= 2
    /\ result.correct_count >= 1
    /\ Len(result.errors) = Levenshtein(ref_words, hyp_words)

\* ---------------------------------------------------------------------------
\* C27

SpeakingWithinThreshold(a) == a.is_speaking => a.silent_frames <= silence_threshold

\* C27: with a classifier at hand, feed sets is_speaking on a frame taken for
\* speech, resetting silent_frames to 0, and clears it only once
\* silent_frames exceeds silence_threshold; in every session state
\* is_speaking implies silent_frames <= silence_threshold; and an audio chunk
\* triggers no flush attempt while is_speaking is true.
C27_SpeakingFlag ==
    [][ \A s \in Sessions :
          /\ asr_session'[s] # NoASR => SpeakingWithinThreshold(asr_session'[s])
          /\ ( /\ rx'[s] = rx[s] + 1
               /\ asr_session[s] # NoASR
               /\ vad_available )
             => LET before == asr_session[s]
                    fed == SessionAfterFeed(s)'
                IN  /\ SpeakingWithinThreshold(fed)
                    /\ fed.voiced_frames = before.voiced_frames + 1 =>
                           fed.is_speaking /\ fed.silent_frames = 0
                    /\ (before.is_speaking /\ ~fed.is_speaking) =>
                           fed.silent_frames > silence_threshold
                    /\ (~before.is_speaking /\ fed.is_speaking) =>
                           fed.voiced_frames = before.voiced_frames + 1
                    /\ ev'.flushes # <<>> => ~fed.is_speaking ]_vars

\* a pause after speech has just cleared is_speaking, and the chunk that
\* cleared it went on to a flush attempt
C27_Witness ==
    /\ ev.msg = "audio"
    /\ ev.flushes # <<>>
    /\ ev.flushes[1].before.voiced_frames >= 1
    /\ ev.flushes[1].before.silent_frames = silence_threshold + 1
    /\ ~ev.flushes[1].before.is_speaking

\* ---------------------------------------------------------------------------
\* C29

\* the fields of the ASR session a flush may write
SameSessionFields(a, b) ==
    /\ a.buffer = b.buffer
    /\ a.voiced_frames = b.voiced_frames
    /\ a.silent_frames = b.silent_frames
    /\ a.last_partial = b.last_partial
    /\ a.is_speaking = b.is_speaking
    /\ a.segment_id = b.segment_id
    /\ a.segments = b.segments

\* C29: whenever flush_segment returns None (buffer too short, empty or
\* whitespace-only transcription, adapter exception) it leaves buffer,
\* voiced_frames, silent_frames, last_partial, is_speaking, segment_id and
\* segments as they were.
C29_FailedFlushKeepsState ==
    \A k \in 1..Len(ev.flushes) :
        ev.flushes[k].segment = NoneSeg =>
            SameSessionFields(ev.flushes[k].before, ev.flushes[k].after)

\* a flush of buffered audio during which the adapter raised
C29_Witness ==
    \E k \in 1..Len(ev.flushes) :
        /\ ev.flushes[k].segment = NoneSeg
        /\ ev.flushes[k].before.buffer.len > 0
        /\ ev.flushes[k].calls # <<>>
        /\ ~ev.flushes[k].calls[1].ok

\* ---------------------------------------------------------------------------
\* C30

\* C30: a segment is written to the transcript store only if the most
\* recently handled start message of the connection set save to true and
\* carried a token that verified; after a start with no token or with an
\* invalid or expired one, no segment of the connection is persisted.
C30_SavedOnlyAfterVerifiedStart ==
    [][ transcripts' # transcripts =>
          /\ last_start'[ev'.sid].save
          /\ last_start'[ev'.sid].token = "valid" ]_vars

============================================================================
